---- MODULE Spec2Model ----
(***************************************************************************)
(* Connection lifecycle of the seekdbclient backend clients.               *)
(*                                                                         *)
(* One client object (SeekdbServerClient or OceanBaseServerClient, or the  *)
(* embedded variant as far as the factory constructs it) is used by one    *)
(* sequential caller.  The transport (pymysql) is the environment: a       *)
(* connect can fail, a statement can be rejected, a session can be         *)
(* dropped.  Every method of the client is one action; the transport       *)
(* calls a method makes are recorded in the order it makes them.           *)
(***************************************************************************)
EXTENDS Integers, Sequences, FiniteSets, TLC

VARIABLES
    client,     \* the client object: its attributes, or NoClient before construction
    handles,    \* every pymysql.Connection created so far, by handle id
    last,       \* what the last operation was, what it returned or raised, which transport calls it made
    connects,   \* number of pymysql.connect calls made so far
    needed,     \* number of operations so far that found the handle absent or reporting closed
    fresh,      \* the client object as its constructor left it
    scope,      \* "out" | "in" | "gone": outside or inside a `with client:` block, or
                \* the client was garbage-collected
    pending,    \* the exception unwinding out of the with-block body, or "none"
    collections, \* the Collection objects the caller got from the client, in order
    threads     \* the threads that share the client: whether the caller serializes
                \* them, which one holds the caller's lock, and for each its
                \* operation, its position in it and its local `conn`

vars == <<client, handles, last, connects, needed, fresh, scope, pending, collections,
          threads>>

-----------------------------------------------------------------------------
(* Bounds of the model *)

\* pymysql.connect is called at most this many times in a behaviour
MaxConnects == 2

-----------------------------------------------------------------------------
(* Values *)

\* Python's None as the value of self._connection (handle ids start at 1)
None == 0

\* an optional argument: <<>> when the caller omits it (or passes None), <<v>> otherwise
Opt(S) == {<<>>} \cup {<<v>> : v \in S}
Supplied(S) == {<<v>> : v \in S}
Given(o) == o # <<>>
OrDefault(o, d) == IF o = <<>> THEN d ELSE o[1]

Paths == {"/d"}
Hosts == {"h"}
Ports == {3306}
Databases == {"db1"}
Users == {"u1"}
Passwords == {"pw"}
Tenants == {"t1"}

NoClient == [variant |-> "none"]

ServerBacked == {"SeekdbServerClient", "OceanBaseServerClient"}

-----------------------------------------------------------------------------
(* SQL text: a statement is a sequence of characters *)

Whitespace == {" ", "\t", "\n"}

UpperOf ==
    [ch \in {"s", "e", "l", "c", "t", "h", "o", "w"} |->
        CASE ch = "s" -> "S" [] ch = "e" -> "E" [] ch = "l" -> "L"
          [] ch = "c" -> "C" [] ch = "t" -> "T" [] ch = "h" -> "H"
          [] ch = "o" -> "O" [] ch = "w" -> "W"]

\* str.upper()
Upper(s) == [i \in 1..Len(s) |-> IF s[i] \in DOMAIN UpperOf THEN UpperOf[s[i]] ELSE s[i]]

RECURSIVE LStrip(_)
LStrip(s) == IF s # <<>> /\ Head(s) \in Whitespace THEN LStrip(Tail(s)) ELSE s

RECURSIVE RStrip(_)
RStrip(s) ==
    IF s # <<>> /\ s[Len(s)] \in Whitespace THEN RStrip(SubSeq(s, 1, Len(s) - 1)) ELSE s

\* str.strip()
Strip(s) == RStrip(LStrip(s))

\* str.startswith(prefix)
StartsWith(s, prefix) ==
    Len(s) >= Len(prefix) /\ SubSeq(s, 1, Len(prefix)) = prefix

SELECT == <<"S", "E", "L", "E", "C", "T">>
SHOW == <<"S", "H", "O", "W">>

\* the test without strip(): sql.upper().startswith(...)
UnstrippedReturnsRows(sql) ==
    StartsWith(Upper(sql), SELECT) \/ StartsWith(Upper(sql), SHOW)

\* the test of execute: sql.strip().upper().startswith('SELECT') or ...startswith('SHOW')
ReturnsRows(sql) ==
    StartsWith(Upper(Strip(sql)), SELECT) \/ StartsWith(Upper(Strip(sql)), SHOW)

\* "  select 1", "SHOW T", "CREATE", "x SELECT"
Statements ==
    { <<" ", " ", "s", "e", "l", "e", "c", "t", " ", "1">>,
      <<"S", "H", "O", "W", " ", "T">>,
      <<"C", "R", "E", "A", "T", "E">>,
      <<"x", " ", "S", "E", "L", "E", "C", "T">> }

\* what the backend can answer to a query
RowSets == { <<>>, <<[test |-> 1]>> }

\* what the backend does during one operation: whether a connect succeeds, what
\* happens to the statement and to the commit, and the rows a query yields
Backends ==
    { [ok |-> FALSE, stmt |-> "ok", commit |-> "ok", rows |-> <<>>],
      [ok |-> TRUE, stmt |-> "rejected", commit |-> "ok", rows |-> <<>>],
      [ok |-> TRUE, stmt |-> "dropped", commit |-> "ok", rows |-> <<>>],
      [ok |-> TRUE, stmt |-> "ok", commit |-> "dropped", rows |-> <<>>] }
    \cup { [ok |-> TRUE, stmt |-> "ok", commit |-> "ok", rows |-> rows] : rows \in RowSets }

-----------------------------------------------------------------------------
(* The transport: pymysql.Connection as the client code uses it *)

\* the result of a method: the client and the transport after it, the transport
\* calls it made, the exception it raised ("none" if it returned) and its value
Result(c, hs, calls, exc, ret) ==
    [c |-> c, hs |-> hs, calls |-> calls, exc |-> exc, ret |-> ret]

NoValue == [kind |-> "none"]

\* conn.open
TransportOpen(hs, h) == hs[h].open

\* pymysql.connect(host=, port=, user=, password=, database=, ...): a new open
\* connection, or the connection error when the backend cannot be reached
TransportConnect(hs, host, port, user, password, database, ok) ==
    IF ok
    THEN [hs |-> Append(hs, [open |-> TRUE, closed |-> FALSE, host |-> host, port |-> port,
                             user |-> user, password |-> password, database |-> database]),
          exc |-> "none",
          call |-> [call |-> "connect", h |-> Len(hs) + 1, user |-> user]]
    ELSE [hs |-> hs, exc |-> "ConnectionError",
          call |-> [call |-> "connect", h |-> None, user |-> user]]

\* cursor.execute(sql) on connection h: the backend accepts the statement,
\* rejects it, or the session is gone (the transport then reports closed)
TransportExecute(hs, h, outcome) ==
    IF ~hs[h].open
    THEN [hs |-> hs, exc |-> "InterfaceError"]
    ELSE CASE outcome = "ok" -> [hs |-> hs, exc |-> "none"]
           [] outcome = "rejected" -> [hs |-> hs, exc |-> "QueryError"]
           [] outcome = "dropped" ->
                [hs |-> [hs EXCEPT ![h].open = FALSE], exc |-> "SessionLost"]

\* conn.commit() on connection h
TransportCommit(hs, h, outcome) ==
    IF ~hs[h].open
    THEN [hs |-> hs, exc |-> "InterfaceError"]
    ELSE CASE outcome = "ok" -> [hs |-> hs, exc |-> "none"]
           [] outcome = "dropped" ->
                [hs |-> [hs EXCEPT ![h].open = FALSE], exc |-> "SessionLost"]

\* conn.close(): raises when close was already called on this connection
TransportClose(hs, h) ==
    IF hs[h].closed
    THEN [hs |-> hs, exc |-> "AlreadyClosed"]
    ELSE [hs |-> [hs EXCEPT ![h].open = FALSE, ![h].closed = TRUE], exc |-> "none"]

-----------------------------------------------------------------------------
(* The classes and their attributes *)

\* the @abstractmethod names of BaseClient
AbstractMethods ==
    { "is_connected", "_cleanup", "execute", "get_raw_connection", "mode",
      "create_collection", "get_collection", "delete_collection", "list_collections",
      "has_collection" }

\* every name the body of BaseClient defines
BaseClient_defines == AbstractMethods \cup {"__enter__", "__exit__", "__del__"}

\* the class body without has_collection
NoHasCollectionSeekdbServerClient_defines ==
    { "__init__", "_ensure_connection", "_cleanup", "is_connected", "execute",
      "get_raw_connection", "mode", "create_collection", "get_collection",
      "delete_collection", "list_collections", "create_database",
      "get_database", "delete_database", "list_databases", "__repr__" }

\* every name the body of SeekdbServerClient defines
SeekdbServerClient_defines ==
    { "__init__", "_ensure_connection", "_cleanup", "is_connected", "execute",
      "get_raw_connection", "mode", "create_collection", "get_collection",
      "delete_collection", "list_collections", "has_collection", "create_database",
      "get_database", "delete_database", "list_databases", "__repr__" }

\* every name the body of OceanBaseServerClient defines
OceanBaseServerClient_defines ==
    { "__init__", "_ensure_connection", "_cleanup", "is_connected", "execute",
      "get_raw_connection", "mode", "create_collection", "get_collection",
      "delete_collection", "list_collections", "has_collection", "create_database",
      "get_database", "delete_database", "list_databases", "__repr__" }

\* the embedded class: the shared contract of all variants
SeekdbEmbeddedClient_defines == AbstractMethods \cup {"__init__"}

Defines(variant) ==
    CASE variant = "SeekdbServerClient" -> SeekdbServerClient_defines
      [] variant = "OceanBaseServerClient" -> OceanBaseServerClient_defines
      [] variant = "SeekdbEmbeddedClient" -> SeekdbEmbeddedClient_defines

\* class X(BaseClient): every class here has BaseClient as its one base
Bases(variant) == {"BaseClient"}

\* the names an instance finds on its class and the bases of it
ClassAttributes(variant) ==
    Defines(variant) \cup (IF "BaseClient" \in Bases(variant) THEN BaseClient_defines ELSE {})

\* __abstractmethods__ of the class: a class of ABC that has any cannot be
\* instantiated (TypeError)
StillAbstract(variant) ==
    IF "BaseClient" \in Bases(variant) THEN AbstractMethods \ Defines(variant) ELSE {}

-----------------------------------------------------------------------------
(* SeekdbServerClient (client_seekdb_server.py) *)

\* a constructor that connects at once
EagerSeekdbServerClient_init(hs, host, port, database, user, password) ==
    LET t == TransportConnect(hs, OrDefault(host, "localhost"), OrDefault(port, 2882),
                              OrDefault(user, "root"), OrDefault(password, ""),
                              OrDefault(database, "test"), TRUE)
    IN  Result([variant |-> "SeekdbServerClient",
                host |-> OrDefault(host, "localhost"),
                port |-> OrDefault(port, 2882),
                database |-> OrDefault(database, "test"),
                user |-> OrDefault(user, "root"),
                password |-> OrDefault(password, ""),
                charset |-> "utf8mb4",
                _connection |-> t.call.h],
               t.hs, <<t.call>>, "none", NoValue)

\* __init__(host="localhost", port=2882, database="test", user="root", password="",
\*          charset="utf8mb4"): stores the parameters, no connection
SeekdbServerClient_init(hs, host, port, database, user, password) ==
    IF StillAbstract("SeekdbServerClient") # {}
    THEN Result(NoClient, hs, <<>>, "TypeError", NoValue)
    ELSE
    Result([variant |-> "SeekdbServerClient",
            host |-> OrDefault(host, "localhost"),
            port |-> OrDefault(port, 2882),
            database |-> OrDefault(database, "test"),
            user |-> OrDefault(user, "root"),
            password |-> OrDefault(password, ""),
            charset |-> "utf8mb4",
            _connection |-> None],
           hs, <<>>, "none", NoValue)

\* _ensure_connection that drops the old reference before it connects
ClearFirstSeekdbServerClient_ensure_connection(c, hs, ok) ==
    IF c._connection = None \/ ~TransportOpen(hs, c._connection)
    THEN LET t == TransportConnect(hs, c.host, c.port, c.user, c.password, c.database, ok)
         IN  IF t.exc = "none"
             THEN Result([c EXCEPT !._connection = t.call.h], t.hs, <<t.call>>, "none",
                         [kind |-> "conn", h |-> t.call.h])
             ELSE Result([c EXCEPT !._connection = None], hs, <<t.call>>, t.exc, NoValue)
    ELSE Result(c, hs, <<>>, "none", [kind |-> "conn", h |-> c._connection])

\* _ensure_connection that returns the new connection without storing it in self._connection
UnstoredSeekdbServerClient_ensure_connection(c, hs, ok) ==
    IF c._connection = None \/ ~TransportOpen(hs, c._connection)
    THEN LET t == TransportConnect(hs, c.host, c.port, c.user, c.password, c.database, ok)
         IN  IF t.exc = "none"
             THEN Result(c, t.hs, <<t.call>>, "none", [kind |-> "conn", h |-> t.call.h])
             ELSE Result(c, hs, <<t.call>>, t.exc, NoValue)
    ELSE Result(c, hs, <<>>, "none", [kind |-> "conn", h |-> c._connection])

\* _ensure_connection that only tests `self._connection is None`
NoOpenTestSeekdbServerClient_ensure_connection(c, hs, ok) ==
    IF c._connection = None
    THEN LET t == TransportConnect(hs, c.host, c.port, c.user, c.password, c.database, ok)
         IN  IF t.exc = "none"
             THEN Result([c EXCEPT !._connection = t.call.h], t.hs, <<t.call>>, "none",
                         [kind |-> "conn", h |-> t.call.h])
             ELSE Result(c, hs, <<t.call>>, t.exc, NoValue)
    ELSE Result(c, hs, <<>>, "none", [kind |-> "conn", h |-> c._connection])

\* _ensure_connection that connects on every call
AlwaysSeekdbServerClient_ensure_connection(c, hs, ok) ==
    LET t == TransportConnect(hs, c.host, c.port, c.user, c.password, c.database, ok)
    IN  IF t.exc = "none"
        THEN Result([c EXCEPT !._connection = t.call.h], t.hs, <<t.call>>, "none",
                    [kind |-> "conn", h |-> t.call.h])
        ELSE Result(c, hs, <<t.call>>, t.exc, NoValue)

\* _ensure_connection that tries a second time when the connect fails
RetrySeekdbServerClient_ensure_connection(c, hs, ok) ==
    IF c._connection = None \/ ~TransportOpen(hs, c._connection)
    THEN LET t == TransportConnect(hs, c.host, c.port, c.user, c.password, c.database, ok)
         IN  IF t.exc = "none"
             THEN Result([c EXCEPT !._connection = t.call.h], t.hs, <<t.call>>, "none",
                         [kind |-> "conn", h |-> t.call.h])
             ELSE Result(c, hs, <<t.call, t.call>>, t.exc, NoValue)
    ELSE Result(c, hs, <<>>, "none", [kind |-> "conn", h |-> c._connection])

SeekdbServerClient_ensure_connection(c, hs, ok) ==
    IF c._connection = None \/ ~TransportOpen(hs, c._connection)
    THEN LET t == TransportConnect(hs, c.host, c.port, c.user, c.password, c.database, ok)
         IN  IF t.exc = "none"
             THEN Result([c EXCEPT !._connection = t.call.h], t.hs, <<t.call>>, "none",
                         [kind |-> "conn", h |-> t.call.h])
             ELSE Result(c, hs, <<t.call>>, t.exc, NoValue)
    ELSE Result(c, hs, <<>>, "none", [kind |-> "conn", h |-> c._connection])

\* _cleanup that closes the connection and keeps the reference
KeepRefSeekdbServerClient_cleanup(c, hs) ==
    IF c._connection # None
    THEN LET t == TransportClose(hs, c._connection)
             call == [call |-> "close", h |-> c._connection]
         IN  Result(c, t.hs, <<call>>, t.exc, NoValue)
    ELSE Result(c, hs, <<>>, "none", NoValue)

\* _cleanup that clears the reference without closing the connection
NoCloseSeekdbServerClient_cleanup(c, hs) ==
    IF c._connection # None
    THEN Result([c EXCEPT !._connection = None], hs, <<>>, "none", NoValue)
    ELSE Result(c, hs, <<>>, "none", NoValue)

SeekdbServerClient_cleanup(c, hs) ==
    IF c._connection # None
    THEN LET t == TransportClose(hs, c._connection)
             call == [call |-> "close", h |-> c._connection]
         IN  IF t.exc = "none"
             THEN Result([c EXCEPT !._connection = None], t.hs, <<call>>, "none", NoValue)
             ELSE Result(c, hs, <<call>>, t.exc, NoValue)
    ELSE Result(c, hs, <<>>, "none", NoValue)

\* is_connected that only tests `self._connection is not None`
RefOnlySeekdbServerClient_is_connected(c, hs) ==
    c._connection # None

SeekdbServerClient_is_connected(c, hs) ==
    c._connection # None /\ TransportOpen(hs, c._connection)

\* execute that drops its connection when the statement fails
ResetOnErrorSeekdbServerClient_execute(c, hs, sql, ok, stmt, commit, rows) ==
    LET e == SeekdbServerClient_ensure_connection(c, hs, ok)
    IN  IF e.exc # "none" THEN e
        ELSE LET conn == e.ret.h
                 x == TransportExecute(e.hs, conn, stmt)
                 calls1 == Append(e.calls, [call |-> "execute", h |-> conn, sql |-> sql])
             IN  IF x.exc # "none"
                 THEN LET k == SeekdbServerClient_cleanup(e.c, x.hs)
                      IN  Result(k.c, k.hs, calls1 \o k.calls, x.exc, NoValue)
                 ELSE IF ReturnsRows(sql)
                 THEN Result(e.c, x.hs, calls1, "none", [kind |-> "rows", rows |-> rows])
                 ELSE LET m == TransportCommit(x.hs, conn, commit)
                          calls2 == Append(calls1, [call |-> "commit", h |-> conn])
                      IN  IF m.exc # "none" THEN Result(e.c, m.hs, calls2, m.exc, NoValue)
                          ELSE Result(e.c, m.hs, calls2, "none", [kind |-> "cursor", h |-> conn])

\* execute that commits before it looks at the statement
CommitFirstSeekdbServerClient_execute(c, hs, sql, ok, stmt, commit, rows) ==
    LET e == SeekdbServerClient_ensure_connection(c, hs, ok)
    IN  IF e.exc # "none" THEN e
        ELSE LET conn == e.ret.h
                 x == TransportExecute(e.hs, conn, stmt)
                 calls1 == Append(e.calls, [call |-> "execute", h |-> conn, sql |-> sql])
             IN  IF x.exc # "none" THEN Result(e.c, x.hs, calls1, x.exc, NoValue)
                 ELSE LET m == TransportCommit(x.hs, conn, commit)
                          calls2 == Append(calls1, [call |-> "commit", h |-> conn])
                      IN  IF m.exc # "none" THEN Result(e.c, m.hs, calls2, m.exc, NoValue)
                          ELSE IF ReturnsRows(sql)
                          THEN Result(e.c, m.hs, calls2, "none",
                                      [kind |-> "rows", rows |-> rows])
                          ELSE Result(e.c, m.hs, calls2, "none",
                                      [kind |-> "cursor", h |-> conn])

SeekdbServerClient_execute(c, hs, sql, ok, stmt, commit, rows) ==
    LET e == SeekdbServerClient_ensure_connection(c, hs, ok)
    IN  IF e.exc # "none" THEN e
        ELSE LET conn == e.ret.h
                 x == TransportExecute(e.hs, conn, stmt)
                 calls1 == Append(e.calls, [call |-> "execute", h |-> conn, sql |-> sql])
             IN  IF x.exc # "none" THEN Result(e.c, x.hs, calls1, x.exc, NoValue)
                 ELSE IF ReturnsRows(sql)
                 THEN Result(e.c, x.hs, calls1, "none", [kind |-> "rows", rows |-> rows])
                 ELSE LET m == TransportCommit(x.hs, conn, commit)
                          calls2 == Append(calls1, [call |-> "commit", h |-> conn])
                      IN  IF m.exc # "none" THEN Result(e.c, m.hs, calls2, m.exc, NoValue)
                          ELSE Result(e.c, m.hs, calls2, "none", [kind |-> "cursor", h |-> conn])

\* get_raw_connection that hands the connection over and forgets it
DetachSeekdbServerClient_get_raw_connection(c, hs, ok) ==
    LET e == SeekdbServerClient_ensure_connection(c, hs, ok)
    IN  IF e.exc # "none" THEN e
        ELSE Result([e.c EXCEPT !._connection = None], e.hs, e.calls, "none", e.ret)

SeekdbServerClient_get_raw_connection(c, hs, ok) ==
    SeekdbServerClient_ensure_connection(c, hs, ok)

\* a mode that tells whether the client holds a connection
StatefulSeekdbServerClient_mode(c) ==
    IF c._connection = None THEN "SeekdbServerClient" ELSE "SeekdbServerClient (connected)"

SeekdbServerClient_mode(c) == "SeekdbServerClient"

-----------------------------------------------------------------------------
(* OceanBaseServerClient (client_oceanbase_server.py) *)

\* __init__(host="localhost", port=2881, tenant="test", database="test", user="root",
\*          password=""): stores the parameters and full_user = f"{user}@{tenant}"
OceanBaseServerClient_init(hs, host, port, tenant, database, user, password) ==
    IF StillAbstract("OceanBaseServerClient") # {}
    THEN Result(NoClient, hs, <<>>, "TypeError", NoValue)
    ELSE
    Result([variant |-> "OceanBaseServerClient",
            host |-> OrDefault(host, "localhost"),
            port |-> OrDefault(port, 2881),
            tenant |-> OrDefault(tenant, "test"),
            database |-> OrDefault(database, "test"),
            user |-> OrDefault(user, "root"),
            password |-> OrDefault(password, ""),
            full_user |-> OrDefault(user, "root") \o "@" \o OrDefault(tenant, "test"),
            _connection |-> None],
           hs, <<>>, "none", NoValue)

\* _ensure_connection that appends the tenant to full_user once more
TwiceTenantOceanBaseServerClient_ensure_connection(c, hs, ok) ==
    IF c._connection = None \/ ~TransportOpen(hs, c._connection)
    THEN LET t == TransportConnect(hs, c.host, c.port, c.full_user \o "@" \o c.tenant,
                                   c.password, c.database, ok)
         IN  IF t.exc = "none"
             THEN Result([c EXCEPT !._connection = t.call.h], t.hs, <<t.call>>, "none",
                         [kind |-> "conn", h |-> t.call.h])
             ELSE Result(c, hs, <<t.call>>, t.exc, NoValue)
    ELSE Result(c, hs, <<>>, "none", [kind |-> "conn", h |-> c._connection])

\* _ensure_connection that calls close on the stale connection before it reconnects
CloseStaleOceanBaseServerClient_ensure_connection(c, hs, ok) ==
    IF c._connection = None \/ ~TransportOpen(hs, c._connection)
    THEN LET closing == IF c._connection = None THEN <<>>
                        ELSE <<[call |-> "close", h |-> c._connection]>>
             hs1 == IF c._connection = None THEN hs ELSE TransportClose(hs, c._connection).hs
             t == TransportConnect(hs1, c.host, c.port, c.full_user, c.password, c.database, ok)
         IN  IF t.exc = "none"
             THEN Result([c EXCEPT !._connection = t.call.h], t.hs, closing \o <<t.call>>,
                         "none", [kind |-> "conn", h |-> t.call.h])
             ELSE Result(c, hs1, closing \o <<t.call>>, t.exc, NoValue)
    ELSE Result(c, hs, <<>>, "none", [kind |-> "conn", h |-> c._connection])

OceanBaseServerClient_ensure_connection(c, hs, ok) ==
    IF c._connection = None \/ ~TransportOpen(hs, c._connection)
    THEN LET t == TransportConnect(hs, c.host, c.port, c.full_user, c.password, c.database, ok)
         IN  IF t.exc = "none"
             THEN Result([c EXCEPT !._connection = t.call.h], t.hs, <<t.call>>, "none",
                         [kind |-> "conn", h |-> t.call.h])
             ELSE Result(c, hs, <<t.call>>, t.exc, NoValue)
    ELSE Result(c, hs, <<>>, "none", [kind |-> "conn", h |-> c._connection])

\* _cleanup that clears the reference in a finally clause
FinallyClearOceanBaseServerClient_cleanup(c, hs) ==
    IF c._connection # None
    THEN LET t == TransportClose(hs, c._connection)
             call == [call |-> "close", h |-> c._connection]
         IN  Result([c EXCEPT !._connection = None], t.hs, <<call>>, t.exc, NoValue)
    ELSE Result(c, hs, <<>>, "none", NoValue)

OceanBaseServerClient_cleanup(c, hs) ==
    IF c._connection # None
    THEN LET t == TransportClose(hs, c._connection)
             call == [call |-> "close", h |-> c._connection]
         IN  IF t.exc = "none"
             THEN Result([c EXCEPT !._connection = None], t.hs, <<call>>, "none", NoValue)
             ELSE Result(c, hs, <<call>>, t.exc, NoValue)
    ELSE Result(c, hs, <<>>, "none", NoValue)

OceanBaseServerClient_is_connected(c, hs) ==
    c._connection # None /\ TransportOpen(hs, c._connection)

OceanBaseServerClient_execute(c, hs, sql, ok, stmt, commit, rows) ==
    LET e == OceanBaseServerClient_ensure_connection(c, hs, ok)
    IN  IF e.exc # "none" THEN e
        ELSE LET conn == e.ret.h
                 x == TransportExecute(e.hs, conn, stmt)
                 calls1 == Append(e.calls, [call |-> "execute", h |-> conn, sql |-> sql])
             IN  IF x.exc # "none" THEN Result(e.c, x.hs, calls1, x.exc, NoValue)
                 ELSE IF ReturnsRows(sql)
                 THEN Result(e.c, x.hs, calls1, "none", [kind |-> "rows", rows |-> rows])
                 ELSE LET m == TransportCommit(x.hs, conn, commit)
                          calls2 == Append(calls1, [call |-> "commit", h |-> conn])
                      IN  IF m.exc # "none" THEN Result(e.c, m.hs, calls2, m.exc, NoValue)
                          ELSE Result(e.c, m.hs, calls2, "none", [kind |-> "cursor", h |-> conn])

OceanBaseServerClient_get_raw_connection(c, hs, ok) ==
    OceanBaseServerClient_ensure_connection(c, hs, ok)

OceanBaseServerClient_mode(c) == "OceanBaseServerClient"

-----------------------------------------------------------------------------
(* Database management of the two server classes *)

\* Database(name=, tenant=, charset=, collation=) of database.py
Database(name, tenant, charset, collation) ==
    [name |-> name, tenant |-> tenant, charset |-> charset, collation |-> collation]

\* f"{n}" of an int, and the int the backend reads from it
Digits == <<"0", "1", "2", "3">>
Str(n) == Digits[n + 1]
Num(str) == CHOOSE n \in 0..(Len(Digits) - 1) : Digits[n + 1] = str

\* the statement templates; a statement is the sequence of its characters, with
\* a stretch that nothing looks into kept as one element
CREATE == <<"C", "R", "E", "A", "T", "E">>
DROP == <<"D", "R", "O", "P">>
Schemata ==
    <<" ", "SCHEMA_NAME, DEFAULT_CHARACTER_SET_NAME, DEFAULT_COLLATION_NAME",
      " FROM information_schema.SCHEMATA">>
WhereName == " WHERE SCHEMA_NAME = '"
\* the character that quotes the name in CREATE and DROP (a backquote)
Backquote == "<backquote>"
LimitClause == " LIMIT "

\* a row of information_schema.SCHEMATA as DictCursor returns it
Row(name, charset, collation) ==
    [SCHEMA_NAME |-> name, DEFAULT_CHARACTER_SET_NAME |-> charset,
     DEFAULT_COLLATION_NAME |-> collation]

\* catalogs of the backend: none visible, and three databases
Catalogs ==
    { <<>>,
      <<Row("db1", "utf8mb4", "utf8mb4_bin"), Row("db2", "latin1", "latin1_bin"),
        Row("db3", "utf8mb4", "utf8mb4_general_ci")>> }

DbNames == {"db1", "nodb"}
Limits == {1, 2}
Offsets == {1}

\* what the backend answers to a SELECT on SCHEMATA: the rows of the name asked
\* for; or count rows after skipping offset for LIMIT offset, count; or the
\* first count rows for LIMIT count; or all rows
Evaluate(sql, catalog) ==
    LET n == Len(sql)
        Page(offset, count) ==
            SubSeq(catalog, offset + 1,
                   IF offset + count < Len(catalog) THEN offset + count ELSE Len(catalog))
    IN  IF n >= 3 /\ sql[n - 2] = WhereName
        THEN SelectSeq(catalog, LAMBDA r : r.SCHEMA_NAME = sql[n - 1])
        ELSE IF n >= 4 /\ sql[n - 3] = LimitClause
        THEN Page(Num(sql[n - 2]), Num(sql[n]))
        ELSE IF n >= 2 /\ sql[n - 1] = LimitClause
        THEN Page(0, Num(sql[n]))
        ELSE catalog

\* the descriptors of the rows, for the tenant given
Descriptors(rows, tenant) ==
    [i \in 1..Len(rows) |->
        Database(rows[i].SCHEMA_NAME, tenant, rows[i].DEFAULT_CHARACTER_SET_NAME,
                 rows[i].DEFAULT_COLLATION_NAME)]

\* the paging clause of list_databases
Paging(limit, offset) ==
    IF Given(limit)
    THEN IF Given(offset)
         THEN <<LimitClause, Str(offset[1]), ", ", Str(limit[1])>>
         ELSE <<LimitClause, Str(limit[1])>>
    ELSE <<>>

\* create_database(name, tenant): the tenant is not used
SeekdbServerClient_create_database(c, hs, name, tenant, ok, stmt) ==
    LET sql == CREATE \o <<" DATABASE IF NOT EXISTS ", Backquote, name, Backquote>>
        r == SeekdbServerClient_execute(c, hs, sql, ok, stmt, "ok", <<>>)
    IN  Result(r.c, r.hs, r.calls, r.exc, NoValue)

\* get_database that answers a missing database with an empty descriptor
LenientSeekdbServerClient_get_database(c, hs, name, tenant, ok, stmt, catalog) ==
    LET sql == SELECT \o Schemata \o <<WhereName, name, "'">>
        r == SeekdbServerClient_execute(c, hs, sql, ok, stmt, "ok", Evaluate(sql, catalog))
    IN  IF r.exc # "none" THEN r
        ELSE IF r.ret.rows = <<>>
        THEN Result(r.c, r.hs, r.calls, "none",
                    [kind |-> "database", db |-> Database(name, None, None, None)])
        ELSE Result(r.c, r.hs, r.calls, "none",
                    [kind |-> "database", db |-> Descriptors(r.ret.rows, None)[1]])

\* get_database(name, tenant)
SeekdbServerClient_get_database(c, hs, name, tenant, ok, stmt, catalog) ==
    LET sql == SELECT \o Schemata \o <<WhereName, name, "'">>
        r == SeekdbServerClient_execute(c, hs, sql, ok, stmt, "ok", Evaluate(sql, catalog))
    IN  IF r.exc # "none" THEN r
        ELSE IF r.ret.rows = <<>> THEN Result(r.c, r.hs, r.calls, "ValueError", NoValue)
        ELSE Result(r.c, r.hs, r.calls, "none",
                    [kind |-> "database", db |-> Descriptors(r.ret.rows, None)[1]])

\* delete_database that sends its statement on the raw connection, uncommitted
RawSeekdbServerClient_delete_database(c, hs, name, tenant, ok, stmt) ==
    LET sql == DROP \o <<" DATABASE IF EXISTS ", Backquote, name, Backquote>>
        e == SeekdbServerClient_get_raw_connection(c, hs, ok)
    IN  IF e.exc # "none" THEN e
        ELSE LET x == TransportExecute(e.hs, e.ret.h, stmt)
             IN  Result(e.c, x.hs,
                        Append(e.calls, [call |-> "execute", h |-> e.ret.h, sql |-> sql]),
                        x.exc, NoValue)

\* delete_database(name, tenant)
SeekdbServerClient_delete_database(c, hs, name, tenant, ok, stmt) ==
    LET sql == DROP \o <<" DATABASE IF EXISTS ", Backquote, name, Backquote>>
        r == SeekdbServerClient_execute(c, hs, sql, ok, stmt, "ok", <<>>)
    IN  Result(r.c, r.hs, r.calls, r.exc, NoValue)

\* list_databases(limit=None, offset=None, tenant)
SeekdbServerClient_list_databases(c, hs, limit, offset, tenant, ok, stmt, catalog) ==
    LET sql == SELECT \o Schemata \o Paging(limit, offset)
        r == SeekdbServerClient_execute(c, hs, sql, ok, stmt, "ok", Evaluate(sql, catalog))
    IN  IF r.exc # "none" THEN r
        ELSE Result(r.c, r.hs, r.calls, "none",
                    [kind |-> "databases", dbs |-> Descriptors(r.ret.rows, None)])

\* the same of OceanBaseServerClient: the tenant argument only decides about a
\* warning in the log; the descriptors get self.tenant
OceanBaseServerClient_create_database(c, hs, name, tenant, ok, stmt) ==
    LET sql == CREATE \o <<" DATABASE IF NOT EXISTS ", Backquote, name, Backquote>>
        r == OceanBaseServerClient_execute(c, hs, sql, ok, stmt, "ok", <<>>)
    IN  Result(r.c, r.hs, r.calls, r.exc, NoValue)

\* get_database that labels the descriptor with the tenant asked for
ArgTenantOceanBaseServerClient_get_database(c, hs, name, tenant, ok, stmt, catalog) ==
    LET sql == SELECT \o Schemata \o <<WhereName, name, "'">>
        r == OceanBaseServerClient_execute(c, hs, sql, ok, stmt, "ok",
                                           Evaluate(sql, catalog))
    IN  IF r.exc # "none" THEN r
        ELSE IF r.ret.rows = <<>> THEN Result(r.c, r.hs, r.calls, "ValueError", NoValue)
        ELSE Result(r.c, r.hs, r.calls, "none",
                    [kind |-> "database",
                     db |-> Descriptors(r.ret.rows, OrDefault(tenant, c.tenant))[1]])

OceanBaseServerClient_get_database(c, hs, name, tenant, ok, stmt, catalog) ==
    LET sql == SELECT \o Schemata \o <<WhereName, name, "'">>
        r == OceanBaseServerClient_execute(c, hs, sql, ok, stmt, "ok",
                                           Evaluate(sql, catalog))
    IN  IF r.exc # "none" THEN r
        ELSE IF r.ret.rows = <<>> THEN Result(r.c, r.hs, r.calls, "ValueError", NoValue)
        ELSE Result(r.c, r.hs, r.calls, "none",
                    [kind |-> "database", db |-> Descriptors(r.ret.rows, c.tenant)[1]])

OceanBaseServerClient_delete_database(c, hs, name, tenant, ok, stmt) ==
    LET sql == DROP \o <<" DATABASE IF EXISTS ", Backquote, name, Backquote>>
        r == OceanBaseServerClient_execute(c, hs, sql, ok, stmt, "ok", <<>>)
    IN  Result(r.c, r.hs, r.calls, r.exc, NoValue)

OceanBaseServerClient_list_databases(c, hs, limit, offset, tenant, ok, stmt, catalog) ==
    LET sql == SELECT \o Schemata \o Paging(limit, offset)
        r == OceanBaseServerClient_execute(c, hs, sql, ok, stmt, "ok",
                                           Evaluate(sql, catalog))
    IN  IF r.exc # "none" THEN r
        ELSE Result(r.c, r.hs, r.calls, "none",
                    [kind |-> "databases", dbs |-> Descriptors(r.ret.rows, c.tenant)])

-----------------------------------------------------------------------------
(* The embedded variant: only its construction by the factory *)

\* SeekdbEmbeddedClient(path=, database=): stores the parameters, no connection
SeekdbEmbeddedClient_init(hs, path, database) ==
    IF StillAbstract("SeekdbEmbeddedClient") # {}
    THEN Result(NoClient, hs, <<>>, "TypeError", NoValue)
    ELSE
    Result([variant |-> "SeekdbEmbeddedClient", path |-> path, database |-> database,
            _connection |-> None],
           hs, <<>>, "none", NoValue)

\* is_connected() of the embedded variant: a handle exists and reports open
SeekdbEmbeddedClient_is_connected(c, hs) ==
    c._connection # None /\ TransportOpen(hs, c._connection)

-----------------------------------------------------------------------------
(* The factories (client/__init__.py) *)

\* Client that defaults the port to the one of the other backend
OtherPortClient(hs, path, host, port, database, user, password) ==
    IF Given(path)
    THEN SeekdbEmbeddedClient_init(hs, path[1], OrDefault(database, "test"))
    ELSE IF Given(host)
    THEN SeekdbServerClient_init(hs, host,
                <<IF ~Given(port) THEN 2881 ELSE port[1]>>,
                <<OrDefault(database, "test")>>,
                <<IF ~Given(user) THEN "root" ELSE user[1]>>,
                <<OrDefault(password, "")>>)
    ELSE Result(NoClient, hs, <<>>, "ValueError", NoValue)

\* Client that falls back to a server on localhost when no addressing is given
LocalhostClient(hs, path, host, port, database, user, password) ==
    IF Given(path)
    THEN SeekdbEmbeddedClient_init(hs, path[1], OrDefault(database, "test"))
    ELSE SeekdbServerClient_init(hs, host,
                <<IF ~Given(port) THEN 2882 ELSE port[1]>>,
                <<OrDefault(database, "test")>>,
                <<IF ~Given(user) THEN "root" ELSE user[1]>>,
                <<OrDefault(password, "")>>)

\* Client that tests host before path
HostFirstClient(hs, path, host, port, database, user, password) ==
    IF Given(host)
    THEN SeekdbServerClient_init(hs, host,
                <<IF ~Given(port) THEN 2882 ELSE port[1]>>,
                <<OrDefault(database, "test")>>,
                <<IF ~Given(user) THEN "root" ELSE user[1]>>,
                <<OrDefault(password, "")>>)
    ELSE IF Given(path)
    THEN SeekdbEmbeddedClient_init(hs, path[1], OrDefault(database, "test"))
    ELSE Result(NoClient, hs, <<>>, "ValueError", NoValue)

\* Client(path=None, host=None, port=None, database="test", user=None, password="")
Client(hs, path, host, port, database, user, password) ==
    IF Given(path)
    THEN SeekdbEmbeddedClient_init(hs, path[1], OrDefault(database, "test"))
    ELSE IF Given(host)
    THEN SeekdbServerClient_init(hs, host,
                <<IF ~Given(port) THEN 2882 ELSE port[1]>>,
                <<OrDefault(database, "test")>>,
                <<IF ~Given(user) THEN "root" ELSE user[1]>>,
                <<OrDefault(password, "")>>)
    ELSE Result(NoClient, hs, <<>>, "ValueError", NoValue)

\* OBClient that drops the caller's tenant
DefaultTenantOBClient(hs, host, port, tenant, database, user, password) ==
    OceanBaseServerClient_init(hs,
        <<OrDefault(host, "localhost")>>, <<OrDefault(port, 2881)>>,
        <<"test">>, <<OrDefault(database, "test")>>,
        <<OrDefault(user, "root")>>, <<OrDefault(password, "")>>)

\* OBClient(host="localhost", port=2881, tenant="test", database="test", user="root",
\*          password="")
OBClient(hs, host, port, tenant, database, user, password) ==
    OceanBaseServerClient_init(hs,
        <<OrDefault(host, "localhost")>>, <<OrDefault(port, 2881)>>,
        <<OrDefault(tenant, "test")>>, <<OrDefault(database, "test")>>,
        <<OrDefault(user, "root")>>, <<OrDefault(password, "")>>)

-----------------------------------------------------------------------------
(* class Collection, and the collection management of the two server classes *)

\* the object a method is called on, as a reference: `self`
Self(c) == [object |-> "client", class |-> c.variant]

\* Collection.__init__(client, name, dimension=None, **metadata)
Collection_init(client_, name, dimension, metadata) ==
    [_client |-> client_, _name |-> name, _dimension |-> dimension, _metadata |-> metadata]

\* the properties name, dimension, client, metadata
Collection_name(coll) == coll._name
Collection_dimension(coll) == coll._dimension
Collection_client(coll) == coll._client
Collection_metadata(coll) == coll._metadata

\* the result of a method of a Collection: the object, its client and the
\* transport after it, and the value returned
CollResult(coll, c, hs, ret) == [coll |-> coll, c |-> c, hs |-> hs, exc |-> "none", ret |-> ret]

\* add that takes the dimension from the first data when none was given
InferringCollection_add(coll, c, hs) ==
    CollResult([coll EXCEPT !._dimension = IF @ = None THEN 1 ELSE @], c, hs, NoValue)

Collection_add(coll, c, hs) == CollResult(coll, c, hs, NoValue)
Collection_update(coll, c, hs) == CollResult(coll, c, hs, NoValue)
Collection_delete(coll, c, hs) == CollResult(coll, c, hs, NoValue)
Collection_search(coll, c, hs) == CollResult(coll, c, hs, [kind |-> "list", items |-> <<>>])
Collection_get_by_id(coll, c, hs) == CollResult(coll, c, hs, [kind |-> "list", items |-> <<>>])
Collection_query(coll, c, hs) == CollResult(coll, c, hs, [kind |-> "list", items |-> <<>>])
Collection_hybrid_search(coll, c, hs) ==
    CollResult(coll, c, hs, [kind |-> "list", items |-> <<>>])

\* {"name": self._name, "dimension": self._dimension, **self._metadata}: a
\* dictionary as its set of items, later keys replacing earlier ones
Collection_describe(coll, c, hs) ==
    LET own == { <<"name", [v |-> coll._name]>>, <<"dimension", [v |-> coll._dimension]>> }
        keys == { item[1] : item \in coll._metadata }
    IN  CollResult(coll, c, hs,
                   [kind |-> "dict",
                    items |-> { item \in own : item[1] \notin keys } \cup coll._metadata])

Collection_count(coll, c, hs) == CollResult(coll, c, hs, [kind |-> "int", n |-> 0])

HandleOps ==
    {"add", "update", "delete", "search", "get_by_id", "query", "hybrid_search", "describe",
     "count"}

Collection_call(op, coll, c, hs) ==
    CASE op = "add" -> Collection_add(coll, c, hs)
      [] op = "update" -> Collection_update(coll, c, hs)
      [] op = "delete" -> Collection_delete(coll, c, hs)
      [] op = "search" -> Collection_search(coll, c, hs)
      [] op = "get_by_id" -> Collection_get_by_id(coll, c, hs)
      [] op = "query" -> Collection_query(coll, c, hs)
      [] op = "hybrid_search" -> Collection_hybrid_search(coll, c, hs)
      [] op = "describe" -> Collection_describe(coll, c, hs)
      [] op = "count" -> Collection_count(coll, c, hs)

SeekdbServerClient_create_collection(c, hs, name, dimension, kwargs) ==
    Result(c, hs, <<>>, "none",
           [kind |-> "collection", coll |-> Collection_init(Self(c), name, dimension, kwargs)])

\* get_collection that looks the collection up on the backend first
LookupSeekdbServerClient_get_collection(c, hs, name) ==
    LET e == SeekdbServerClient_ensure_connection(c, hs, TRUE)
    IN  Result(e.c, e.hs, e.calls, "none",
               [kind |-> "collection", coll |-> Collection_init(Self(c), name, None, {})])

SeekdbServerClient_get_collection(c, hs, name) ==
    Result(c, hs, <<>>, "none",
           [kind |-> "collection", coll |-> Collection_init(Self(c), name, None, {})])

SeekdbServerClient_delete_collection(c, hs, name) == Result(c, hs, <<>>, "none", NoValue)

SeekdbServerClient_list_collections(c, hs) ==
    Result(c, hs, <<>>, "none", [kind |-> "list", items |-> <<>>])

SeekdbServerClient_has_collection(c, hs, name) ==
    Result(c, hs, <<>>, "none", [kind |-> "bool", b |-> FALSE])

OceanBaseServerClient_create_collection(c, hs, name, dimension, kwargs) ==
    Result(c, hs, <<>>, "none",
           [kind |-> "collection", coll |-> Collection_init(Self(c), name, dimension, kwargs)])

OceanBaseServerClient_get_collection(c, hs, name) ==
    Result(c, hs, <<>>, "none",
           [kind |-> "collection", coll |-> Collection_init(Self(c), name, None, {})])

OceanBaseServerClient_delete_collection(c, hs, name) == Result(c, hs, <<>>, "none", NoValue)

OceanBaseServerClient_list_collections(c, hs) ==
    Result(c, hs, <<>>, "none", [kind |-> "list", items |-> <<>>])

OceanBaseServerClient_has_collection(c, hs, name) ==
    Result(c, hs, <<>>, "none", [kind |-> "bool", b |-> FALSE])

-----------------------------------------------------------------------------
(* Dispatch on the class of the client *)

is_connected(c, hs) ==
    CASE c.variant = "OceanBaseServerClient" -> OceanBaseServerClient_is_connected(c, hs)
      [] c.variant = "SeekdbServerClient" -> SeekdbServerClient_is_connected(c, hs)
      [] c.variant = "SeekdbEmbeddedClient" -> SeekdbEmbeddedClient_is_connected(c, hs)

execute(c, hs, sql, ok, stmt, commit, rows) ==
    IF c.variant = "OceanBaseServerClient"
    THEN OceanBaseServerClient_execute(c, hs, sql, ok, stmt, commit, rows)
    ELSE SeekdbServerClient_execute(c, hs, sql, ok, stmt, commit, rows)

ensure_connection(c, hs, ok) ==
    IF c.variant = "OceanBaseServerClient"
    THEN OceanBaseServerClient_ensure_connection(c, hs, ok)
    ELSE SeekdbServerClient_ensure_connection(c, hs, ok)

get_raw_connection(c, hs, ok) ==
    IF c.variant = "OceanBaseServerClient"
    THEN OceanBaseServerClient_get_raw_connection(c, hs, ok)
    ELSE SeekdbServerClient_get_raw_connection(c, hs, ok)

mode(c) ==
    IF c.variant = "OceanBaseServerClient" THEN OceanBaseServerClient_mode(c)
    ELSE SeekdbServerClient_mode(c)

create_database(c, hs, name, tenant, ok, stmt) ==
    IF c.variant = "OceanBaseServerClient"
    THEN OceanBaseServerClient_create_database(c, hs, name, tenant, ok, stmt)
    ELSE SeekdbServerClient_create_database(c, hs, name, tenant, ok, stmt)

get_database(c, hs, name, tenant, ok, stmt, catalog) ==
    IF c.variant = "OceanBaseServerClient"
    THEN OceanBaseServerClient_get_database(c, hs, name, tenant, ok, stmt, catalog)
    ELSE SeekdbServerClient_get_database(c, hs, name, tenant, ok, stmt, catalog)

delete_database(c, hs, name, tenant, ok, stmt) ==
    IF c.variant = "OceanBaseServerClient"
    THEN OceanBaseServerClient_delete_database(c, hs, name, tenant, ok, stmt)
    ELSE SeekdbServerClient_delete_database(c, hs, name, tenant, ok, stmt)

list_databases(c, hs, limit, offset, tenant, ok, stmt, catalog) ==
    IF c.variant = "OceanBaseServerClient"
    THEN OceanBaseServerClient_list_databases(c, hs, limit, offset, tenant, ok, stmt,
                                              catalog)
    ELSE SeekdbServerClient_list_databases(c, hs, limit, offset, tenant, ok, stmt, catalog)

create_collection(c, hs, name, dimension, kwargs) ==
    IF c.variant = "OceanBaseServerClient"
    THEN OceanBaseServerClient_create_collection(c, hs, name, dimension, kwargs)
    ELSE SeekdbServerClient_create_collection(c, hs, name, dimension, kwargs)

get_collection(c, hs, name) ==
    IF c.variant = "OceanBaseServerClient"
    THEN OceanBaseServerClient_get_collection(c, hs, name)
    ELSE SeekdbServerClient_get_collection(c, hs, name)

delete_collection(c, hs, name) ==
    IF c.variant = "OceanBaseServerClient"
    THEN OceanBaseServerClient_delete_collection(c, hs, name)
    ELSE SeekdbServerClient_delete_collection(c, hs, name)

list_collections(c, hs) ==
    IF c.variant = "OceanBaseServerClient" THEN OceanBaseServerClient_list_collections(c, hs)
    ELSE SeekdbServerClient_list_collections(c, hs)

has_collection(c, hs, name) ==
    IF c.variant = "OceanBaseServerClient"
    THEN OceanBaseServerClient_has_collection(c, hs, name)
    ELSE SeekdbServerClient_has_collection(c, hs, name)

cleanup(c, hs) ==
    IF c.variant = "OceanBaseServerClient" THEN OceanBaseServerClient_cleanup(c, hs)
    ELSE SeekdbServerClient_cleanup(c, hs)

\* BaseClient.__enter__: return self
BaseClient_enter(c, hs) == Result(c, hs, <<>>, "none", [kind |-> "self"])

\* __exit__ that cleans up only when the body did not raise
OnSuccessOnlyBaseClient_exit(c, hs, exc_type) ==
    IF exc_type = "none" THEN cleanup(c, hs) ELSE Result(c, hs, <<>>, "none", NoValue)

\* BaseClient.__exit__(exc_type, exc_val, exc_tb): self._cleanup(); returns None
BaseClient_exit(c, hs, exc_type) == cleanup(c, hs)

\* hasattr(self, name): an attribute of the instance or of its class
hasattr(c, name) == name \in DOMAIN c \/ name \in ClassAttributes(c.variant)

\* __del__ that calls _cleanup without asking is_connected()
UncheckedBaseClient_del(c, hs) ==
    IF hasattr(c, "_connection")
    THEN LET r == cleanup(c, hs)
         IN  Result(r.c, r.hs, r.calls, "none", NoValue)
    ELSE Result(c, hs, <<>>, "none", NoValue)

\* BaseClient.__del__: try: if hasattr(self, '_connection') and self.is_connected():
\* self._cleanup(); except Exception: pass
BaseClient_del(c, hs) ==
    IF hasattr(c, "_connection") /\ is_connected(c, hs)
    THEN LET r == cleanup(c, hs)
         IN  Result(r.c, r.hs, r.calls, "none", NoValue)
    ELSE Result(c, hs, <<>>, "none", NoValue)

\* bool(value) of what __exit__ returned: a true value suppresses the body's exception
Truthy(ret) == ret.kind = "self" \/ ret.kind = "conn" \/ (ret.kind = "bool" /\ ret.b)

-----------------------------------------------------------------------------
(* The state machine *)

\* a backend that answers everything
AllOk == [ok |-> TRUE, stmt |-> "ok", commit |-> "ok", rows |-> <<>>]

NoOp == [op |-> "init", arg |-> <<>>, env |-> AllOk, exc |-> "none", ret |-> NoValue,
         calls |-> <<>>, pre |-> None, preOpen |-> FALSE, body |-> "none"]

\* a single caller, no operation in flight
OneCaller == [serialized |-> TRUE, holder |-> None, at |-> <<>>]

Init ==
    /\ collections = <<>>
    /\ threads = OneCaller
    /\ client = NoClient
    /\ handles = <<>>
    /\ last = NoOp
    /\ connects = 0
    /\ needed = 0
    /\ fresh = NoClient
    /\ scope = "out"
    /\ pending = "none"

Constructed == client.variant # "none"

\* the handle reference exists and its transport reports open
HandleOpen ==
    Constructed /\ client._connection # None /\ handles[client._connection].open

ConnectCalls(calls) == Cardinality({i \in DOMAIN calls : calls[i].call = "connect"})

\* what the caller observes of an operation with outcome r
Observe(op, arg, env, r) ==
    [op |-> op, arg |-> arg, env |-> env, exc |-> r.exc, ret |-> r.ret, calls |-> r.calls,
     pre |-> IF Constructed THEN client._connection ELSE None, preOpen |-> HandleOpen,
     body |-> "none"]

\* the outcome r of a method becomes the state; inside a with-block an exception
\* either is caught by the body or starts unwinding to __exit__
Effect(op, arg, env, r, ensures) ==
    /\ client' = r.c
    /\ handles' = r.hs
    /\ connects' = connects + ConnectCalls(r.calls)
    /\ connects' <= MaxConnects
    /\ needed' = needed + (IF ensures /\ ~HandleOpen THEN 1 ELSE 0)
    /\ last' = Observe(op, arg, env, r)
    /\ pending' \in (IF scope = "in" /\ r.exc # "none" THEN {r.exc, "none"} ELSE {"none"})
    /\ UNCHANGED <<threads, fresh, scope>>

\* the same for a method that hands out no Collection object
Apply(op, arg, env, r, ensures) ==
    /\ Effect(op, arg, env, r, ensures)
    /\ UNCHANGED collections

\* the outcome r of a construction called with the keyword arguments arg
Construct(op, arg, r) ==
    /\ client' = r.c
    /\ fresh' = r.c
    /\ handles' = r.hs
    /\ connects' = connects + ConnectCalls(r.calls)
    /\ last' = Observe(op, arg, AllOk, r)
    /\ UNCHANGED <<collections, threads, needed, scope, pending>>

NewSeekdbServerClient ==
    /\ ~Constructed
    /\ \E host \in Opt(Hosts), port \in Opt(Ports), database \in Opt(Databases),
          user \in Opt(Users), password \in Supplied(Passwords) :
          Construct("SeekdbServerClient",
                    [host |-> host, port |-> port, database |-> database, user |-> user,
                     password |-> password],
                    SeekdbServerClient_init(handles, host, port, database, user, password))

NewOceanBaseServerClient ==
    /\ ~Constructed
    /\ \E host \in Opt(Hosts), port \in Opt(Ports), tenant \in Opt(Tenants),
          database \in Opt(Databases), user \in Opt(Users),
          password \in Supplied(Passwords) :
          Construct("OceanBaseServerClient",
                    [host |-> host, port |-> port, tenant |-> tenant,
                     database |-> database, user |-> user, password |-> password],
                    OceanBaseServerClient_init(handles, host, port, tenant, database, user,
                                               password))

CallClient ==
    /\ ~Constructed
    /\ \E path \in Opt(Paths), host \in Opt(Hosts), port \in Opt(Ports),
          database \in Opt(Databases), user \in Opt(Users),
          password \in Supplied(Passwords) :
          Construct("Client",
                    [path |-> path, host |-> host, port |-> port, database |-> database,
                     user |-> user, password |-> password],
                    Client(handles, path, host, port, database, user, password))

CallOBClient ==
    /\ ~Constructed
    /\ \E host \in Opt(Hosts), port \in Opt(Ports), tenant \in Opt(Tenants),
          database \in Opt(Databases), user \in Opt(Users),
          password \in Supplied(Passwords) :
          Construct("OBClient",
                    [host |-> host, port |-> port, tenant |-> tenant,
                     database |-> database, user |-> user, password |-> password],
                    OBClient(handles, host, port, tenant, database, user, password))

\* the caller may call a method: a server-backed client exists and no exception is unwinding
Callable == client.variant \in ServerBacked /\ pending = "none" /\ scope # "gone"

IsConnected ==
    /\ Callable
    /\ Apply("is_connected", <<>>, AllOk,
             Result(client, handles, <<>>, "none",
                    [kind |-> "bool", b |-> is_connected(client, handles)]),
             FALSE)

Execute ==
    /\ Callable
    /\ \E sql \in Statements, b \in Backends :
          Apply("execute", sql, b,
                execute(client, handles, sql, b.ok, b.stmt, b.commit, b.rows), TRUE)

GetRawConnection ==
    /\ Callable
    /\ \E ok \in BOOLEAN :
          Apply("get_raw_connection", <<>>, [AllOk EXCEPT !.ok = ok],
                get_raw_connection(client, handles, ok), TRUE)

\* client.mode
Mode ==
    /\ Callable
    /\ Apply("mode", <<>>, AllOk,
             Result(client, handles, <<>>, "none", [kind |-> "str", s |-> mode(client)]),
             FALSE)

Cleanup ==
    /\ Callable
    /\ Apply("cleanup", <<>>, AllOk, cleanup(client, handles), FALSE)

\* the backend drops the session and the transport notices: conn.open becomes false
SessionDrop ==
    /\ HandleOpen
    /\ handles' = [handles EXCEPT ![client._connection].open = FALSE]
    /\ last' = Observe("session_drop", <<>>, AllOk,
                       Result(client, handles', <<>>, "none", NoValue))
    /\ UNCHANGED <<collections, threads, client, connects, needed, fresh, scope, pending>>

\* with client: ...
Enter ==
    /\ Callable
    /\ scope = "out"
    /\ scope' = "in"
    /\ LET r == BaseClient_enter(client, handles)
       IN  /\ client' = r.c
           /\ handles' = r.hs
           /\ last' = Observe("enter", <<>>, AllOk, r)
    /\ UNCHANGED <<collections, threads, connects, needed, fresh, pending>>

\* the body of the with-block raises an error of its own
BodyRaise ==
    /\ Callable
    /\ scope = "in"
    /\ pending' = "BodyError"
    /\ last' = Observe("body_raise", <<>>, AllOk,
                       Result(client, handles, <<>>, "BodyError", NoValue))
    /\ UNCHANGED <<collections, threads, client, handles, connects, needed, fresh, scope>>

\* the with-block is left, normally or by the pending exception: __exit__ runs; an
\* exception raised by __exit__ replaces the pending one, a true return value
\* suppresses it, otherwise it goes on to the caller
Exit ==
    /\ Constructed
    /\ scope = "in"
    /\ LET r == BaseClient_exit(client, handles, pending)
           out == IF r.exc # "none" THEN r.exc
                  ELSE IF Truthy(r.ret) THEN "none" ELSE pending
       IN  /\ client' = r.c
           /\ handles' = r.hs
           /\ last' = [Observe("exit", <<>>, AllOk, r) EXCEPT !.exc = out, !.body = pending]
    /\ scope' = "out"
    /\ pending' = "none"
    /\ UNCHANGED <<collections, threads, connects, needed, fresh>>

\* the caller drops its last reference to the client outside any with-block and
\* the object is collected: __del__ runs, and no method is called afterwards
Finalize ==
    /\ Constructed
    /\ scope = "out"
    /\ pending = "none"
    /\ scope' = "gone"
    /\ LET r == BaseClient_del(client, handles)
       IN  /\ client' = r.c
           /\ handles' = r.hs
           /\ last' = Observe("del", client, AllOk, r)
    /\ UNCHANGED <<collections, threads, connects, needed, fresh, pending>>

\* a constructor call whose arguments do not fit the signature: the object exists
\* without any attribute when the TypeError leaves __init__, and is collected at
\* once while that error is on its way to the caller
ConstructorTypeError ==
    /\ ~Constructed
    /\ \E cls \in ServerBacked :
          LET obj == [variant |-> cls]
              r == BaseClient_del(obj, handles)
          IN  /\ handles' = r.hs
              /\ last' = [Observe("del", obj, AllOk, r) EXCEPT !.body = "TypeError"]
    /\ UNCHANGED <<collections, threads, client, connects, needed, fresh, scope, pending>>

\* the caller closes the connection that get_raw_connection just returned
RawClose ==
    /\ Callable
    /\ last.op = "get_raw_connection"
    /\ last.exc = "none"
    /\ LET h == last.ret.h
           t == TransportClose(handles, h)
       IN  /\ handles' = t.hs
           /\ last' = Observe("raw_close", <<>>, AllOk,
                              Result(client, t.hs, <<[call |-> "close", h |-> h]>>, t.exc,
                                     NoValue))
    /\ UNCHANGED <<collections, threads, client, connects, needed, fresh, scope, pending>>

Next ==
    \/ NewSeekdbServerClient
    \/ NewOceanBaseServerClient
    \/ CallClient
    \/ CallOBClient
    \/ IsConnected
    \/ Execute
    \/ GetRawConnection
    \/ Mode
    \/ Cleanup
    \/ SessionDrop
    \/ Enter
    \/ BodyRaise
    \/ Exit
    \/ Finalize
    \/ ConstructorTypeError

Spec == Init /\ [][Next]_vars

\* the backend of a database-management call: unreachable, rejecting the
\* statement, or answering from its catalog
DbBackends ==
    { [ok |-> ok, stmt |-> stmt, commit |-> "ok", rows |-> <<>>, catalog |-> catalog] :
        ok \in BOOLEAN, stmt \in {"ok", "rejected"}, catalog \in Catalogs }

\* the tenant argument: omitted, some tenant
TenantArgs == Opt({"t1", "t2"})

CreateDatabase ==
    /\ Callable
    /\ \E name \in DbNames, tenant \in TenantArgs, b \in {d \in DbBackends : d.catalog = <<>>} :
          Apply("create_database", [name |-> name, tenant |-> tenant], b,
                create_database(client, handles, name, tenant, b.ok, b.stmt), TRUE)

GetDatabase ==
    /\ Callable
    /\ \E name \in DbNames, tenant \in TenantArgs, b \in DbBackends :
          Apply("get_database", [name |-> name, tenant |-> tenant], b,
                get_database(client, handles, name, tenant, b.ok, b.stmt, b.catalog), TRUE)

DeleteDatabase ==
    /\ Callable
    /\ \E name \in DbNames, tenant \in TenantArgs, b \in {d \in DbBackends : d.catalog = <<>>} :
          Apply("delete_database", [name |-> name, tenant |-> tenant], b,
                delete_database(client, handles, name, tenant, b.ok, b.stmt), TRUE)

ListDatabases ==
    /\ Callable
    /\ \E limit \in Opt(Limits), offset \in Opt(Offsets), tenant \in TenantArgs,
          b \in DbBackends :
          Apply("list_databases", [limit |-> limit, offset |-> offset, tenant |-> tenant], b,
                list_databases(client, handles, limit, offset, tenant, b.ok, b.stmt,
                               b.catalog), TRUE)

\* the clients whose databases are managed: a server client, and a multi-tenant
\* client of the default tenant and of a tenant of its own
DbClients ==
    { SeekdbServerClient_init(<<>>, <<"h">>, <<>>, <<>>, <<>>, <<"pw">>).c }
    \cup { OceanBaseServerClient_init(<<>>, <<"h">>, <<>>, tenant, <<>>, <<>>, <<"pw">>).c :
             tenant \in Opt(Tenants) }

\* one of them was just constructed
InitDb ==
    /\ collections = <<>>
    /\ threads = OneCaller
    /\ client \in DbClients
    /\ fresh = client
    /\ handles = <<>>
    /\ last = NoOp
    /\ connects = 0
    /\ needed = 0
    /\ scope = "out"
    /\ pending = "none"

\* a caller that manages databases
NextDb ==
    \/ CreateDatabase
    \/ GetDatabase
    \/ DeleteDatabase
    \/ ListDatabases
    \/ Cleanup
    \/ SessionDrop

SpecDb == InitDb /\ [][NextDb]_vars

\* names a caller may ask a client for: the shared operations, a connection
\* parameter, and the names the tests and examples of the package use
AttrNames == AbstractMethods \cup {"database", "_server", "close"}

\* getattr(client, name), as hasattr(client, name) and client.name do it
GetAttr ==
    /\ Constructed
    /\ scope = "out"
    /\ \E name \in AttrNames :
          Apply("getattr", name, AllOk,
                Result(client, handles, <<>>,
                       IF hasattr(client, name) THEN "none" ELSE "AttributeError",
                       [kind |-> "attr", found |-> hasattr(client, name)]),
                FALSE)

\* client.close() on a class that has no attribute of that name: the lookup
\* raises before anything is called
Close ==
    /\ Callable
    /\ ~hasattr(client, "close")
    /\ Apply("close", <<>>, AllOk,
             Result(client, handles, <<>>, "AttributeError", NoValue), FALSE)

\* a caller that uses the clients as the tests and examples of the package do
NextApi ==
    \/ NewSeekdbServerClient
    \/ NewOceanBaseServerClient
    \/ CallClient
    \/ CallOBClient
    \/ GetAttr
    \/ IsConnected
    \/ Execute
    \/ Close

SpecApi == Init /\ [][NextApi]_vars

-----------------------------------------------------------------------------
(* Threads sharing one client: the methods statement by statement.  The classes
   take no lock (spec 5); a caller may put one of its own around each call. *)

Threads == {1, 2}

ThreadOps == {"execute", "get_raw_connection", "_cleanup"}

\* what a thread sends: a query and a statement that is committed
ThreadStatements == { <<"S", "H", "O", "W", " ", "T">>, <<"C", "R", "E", "A", "T", "E">> }

Idle == [pc |-> "idle", op |-> "none", sql |-> <<>>, conn |-> None]

\* a test that always takes the branch
AlwaysNeedsConnect(c, hs) == TRUE

\* `if self._connection is None or not self._connection.open:` takes the branch
NeedsConnect(c, hs) == ensure_connection(c, hs, TRUE).calls # <<>>

\* the branch: `self._connection = pymysql.connect(...)`
ConnectAndStore(c, hs, ok) == ensure_connection([c EXCEPT !._connection = None], hs, ok)

\* execute that keeps the cursor of the first connection ever opened
FirstCursor(hs, conn) == IF hs # <<>> THEN 1 ELSE conn

\* `with conn.cursor() as cursor:` the connection the cursor sends on
Cursor(hs, conn) == conn

\* what a step of a thread did: on which connection, and whether _cleanup had
\* closed that connection before
Stepped(op, t, exc, h) ==
    [op |-> op, thread |-> t, exc |-> exc, h |-> h,
     closed |-> IF h = None THEN FALSE ELSE handles[h].closed]

\* the thread goes on to the next statement of its method
Goto(t, pc, conn) ==
    threads' = [threads EXCEPT !.at[t].pc = pc, !.at[t].conn = conn]

\* the method returns or raises; a serialized caller releases its lock
Return(t) ==
    threads' = [threads EXCEPT !.at[t] = Idle, !.holder = None]

\* a thread calls a method; a serialized caller takes its lock first
Call ==
    \E t \in Threads, op \in ThreadOps, sql \in ThreadStatements :
        /\ threads.at[t].pc = "idle"
        /\ threads.serialized => threads.holder = None
        /\ threads' = [threads EXCEPT
              !.holder = IF threads.serialized THEN t ELSE None,
              !.at[t] = [pc |-> IF op = "_cleanup" THEN "cleanup_test" ELSE "ensure_test",
                         op |-> op,
                         sql |-> IF op = "execute" THEN sql ELSE <<>>,
                         conn |-> None]]
        /\ last' = Stepped("call", t, "none", None)
        /\ UNCHANGED <<collections, client, handles, connects, needed, fresh, scope, pending>>

\* _ensure_connection: the test
EnsureTest ==
    \E t \in Threads :
        /\ threads.at[t].pc = "ensure_test"
        /\ Goto(t, IF NeedsConnect(client, handles) THEN "ensure_connect" ELSE "ensure_return",
                None)
        /\ last' = Stepped("ensure_test", t, "none", client._connection)
        /\ UNCHANGED <<collections, client, handles, connects, needed, fresh, scope, pending>>

\* _ensure_connection: connect and store the connection
EnsureConnect ==
    \E t \in Threads, ok \in BOOLEAN :
        /\ threads.at[t].pc = "ensure_connect"
        /\ connects < MaxConnects
        /\ LET r == ConnectAndStore(client, handles, ok)
           IN  /\ client' = r.c
               /\ handles' = r.hs
               /\ connects' = connects + 1
               /\ IF r.exc = "none" THEN Goto(t, "ensure_return", None) ELSE Return(t)
               /\ last' = Stepped("ensure_connect", t, r.exc, None)
        /\ UNCHANGED <<collections, needed, fresh, scope, pending>>

\* _ensure_connection: `return self._connection`
EnsureReturn ==
    \E t \in Threads :
        /\ threads.at[t].pc = "ensure_return"
        /\ IF threads.at[t].op = "execute"
           THEN Goto(t, "dispatch", client._connection)
           ELSE Return(t)
        /\ last' = Stepped("ensure_return", t, "none", client._connection)
        /\ UNCHANGED <<collections, client, handles, connects, needed, fresh, scope, pending>>

\* execute: cursor.execute(sql) on the connection _ensure_connection returned
Dispatch ==
    \E t \in Threads, stmt \in {"ok", "rejected"} :
        LET conn == threads.at[t].conn
            h == IF conn = None THEN None ELSE Cursor(handles, conn)
        IN  /\ threads.at[t].pc = "dispatch"
            /\ IF h = None
               THEN /\ Return(t)
                    /\ last' = Stepped("dispatch", t, "AttributeError", None)
                    /\ UNCHANGED handles
               ELSE LET x == TransportExecute(handles, h, stmt)
                    IN  /\ handles' = x.hs
                        /\ last' = Stepped("dispatch", t, x.exc, h)
                        /\ IF x.exc = "none" /\ ~ReturnsRows(threads.at[t].sql)
                           THEN Goto(t, "commit", conn)
                           ELSE Return(t)
            /\ UNCHANGED <<collections, client, connects, needed, fresh, scope, pending>>

\* execute: conn.commit()
Commit ==
    \E t \in Threads :
        LET conn == threads.at[t].conn
            m == TransportCommit(handles, conn, "ok")
        IN  /\ threads.at[t].pc = "commit"
            /\ handles' = m.hs
            /\ Return(t)
            /\ last' = Stepped("commit", t, m.exc, conn)
            /\ UNCHANGED <<collections, client, connects, needed, fresh, scope, pending>>

\* _cleanup: `if self._connection is not None:`
CleanupTest ==
    \E t \in Threads :
        /\ threads.at[t].pc = "cleanup_test"
        /\ IF client._connection # None THEN Goto(t, "cleanup_close", None) ELSE Return(t)
        /\ last' = Stepped("cleanup_test", t, "none", client._connection)
        /\ UNCHANGED <<collections, client, handles, connects, needed, fresh, scope, pending>>

\* _cleanup: `self._connection.close()`
CleanupClose ==
    \E t \in Threads :
        LET h == client._connection
        IN  /\ threads.at[t].pc = "cleanup_close"
            /\ IF h = None
               THEN /\ Return(t)
                    /\ last' = Stepped("cleanup_close", t, "AttributeError", None)
                    /\ UNCHANGED handles
               ELSE LET x == TransportClose(handles, h)
                    IN  /\ handles' = x.hs
                        /\ last' = Stepped("cleanup_close", t, x.exc, h)
                        /\ IF x.exc = "none" THEN Goto(t, "cleanup_clear", None)
                           ELSE Return(t)
            /\ UNCHANGED <<collections, client, connects, needed, fresh, scope, pending>>

\* _cleanup: `self._connection = None`
CleanupClear ==
    \E t \in Threads :
        /\ threads.at[t].pc = "cleanup_clear"
        /\ client' = [client EXCEPT !._connection = None]
        /\ Return(t)
        /\ last' = Stepped("cleanup_clear", t, "none", None)
        /\ UNCHANGED <<collections, handles, connects, needed, fresh, scope, pending>>

\* a constructed client shared by idle threads; the caller serializes or not
InitThreads ==
    /\ collections = <<>>
    /\ threads \in { [serialized |-> serialized, holder |-> None,
                      at |-> [t \in Threads |-> Idle]] : serialized \in BOOLEAN }
    /\ client \in DbClients
    /\ fresh = client
    /\ handles = <<>>
    /\ last = NoOp
    /\ connects = 0
    /\ needed = 0
    /\ scope = "out"
    /\ pending = "none"

NextThreads ==
    \/ Call
    \/ EnsureTest
    \/ EnsureConnect
    \/ EnsureReturn
    \/ Dispatch
    \/ Commit
    \/ CleanupTest
    \/ CleanupClose
    \/ CleanupClear

SpecThreads == InitThreads /\ [][NextThreads]_vars

\* a single caller that, having constructed a server-backed client, sends
\* statements, takes the raw connection, manages databases and cleans up, while
\* the backend may drop the session
NextSeq ==
    \/ Execute
    \/ GetRawConnection
    \/ CreateDatabase
    \/ GetDatabase
    \/ DeleteDatabase
    \/ ListDatabases
    \/ SessionDrop
    \/ Cleanup

SpecSeq == InitDb /\ [][NextSeq]_vars

-----------------------------------------------------------------------------
(* A caller that manages collections and works with the Collection objects *)

MaxCollections == 2

CollectionNames == {"c1"}
Dimensions == {None, 3}
\* the **kwargs of create_collection: none, or one item of metadata
Kwargs == { {}, {<<"description", [v |-> "d"]>>} }

\* the caller keeps the Collection object a method returned
Keep(r) ==
    collections' = IF r.exc = "none" THEN Append(collections, r.ret.coll) ELSE collections

CreateCollection ==
    /\ Callable
    /\ Len(collections) < MaxCollections
    /\ \E name \in CollectionNames, dimension \in Dimensions, kwargs \in Kwargs :
          LET r == create_collection(client, handles, name, dimension, kwargs)
          IN  /\ Effect("create_collection",
                        [name |-> name, dimension |-> dimension, kwargs |-> kwargs], AllOk, r,
                        FALSE)
              /\ Keep(r)

GetCollection ==
    /\ Callable
    /\ Len(collections) < MaxCollections
    /\ \E name \in CollectionNames :
          LET r == get_collection(client, handles, name)
          IN  /\ Effect("get_collection", [name |-> name], AllOk, r, FALSE)
              /\ Keep(r)

DeleteCollection ==
    /\ Callable
    /\ \E name \in CollectionNames :
          Apply("delete_collection", [name |-> name], AllOk,
                delete_collection(client, handles, name), FALSE)

ListCollections ==
    /\ Callable
    /\ Apply("list_collections", <<>>, AllOk, list_collections(client, handles), FALSE)

HasCollection ==
    /\ Callable
    /\ \E name \in CollectionNames :
          Apply("has_collection", [name |-> name], AllOk,
                has_collection(client, handles, name), FALSE)

\* a data operation or describe / count on one of the Collection objects
CollectionCall ==
    \E i \in DOMAIN collections, op \in HandleOps :
        LET r == Collection_call(op, collections[i], client, handles)
        IN  /\ collections' = [collections EXCEPT ![i] = r.coll]
            /\ client' = r.c
            /\ handles' = r.hs
            /\ last' = Observe(op, i, AllOk, Result(r.c, r.hs, <<>>, r.exc, r.ret))
            /\ UNCHANGED <<connects, needed, fresh, scope, pending, threads>>

NextColl ==
    \/ CreateCollection
    \/ GetCollection
    \/ DeleteCollection
    \/ ListCollections
    \/ HasCollection
    \/ CollectionCall
    \/ GetRawConnection
    \/ SessionDrop
    \/ Cleanup

SpecColl == InitDb /\ [][NextColl]_vars

\* the same with a caller that also closes raw connections itself
NextRaw == Next \/ RawClose

SpecRaw == Init /\ [][NextRaw]_vars

-----------------------------------------------------------------------------
(* Properties of the connection lifecycle *)

ConstructOps == {"SeekdbServerClient", "OceanBaseServerClient", "Client", "OBClient"}
EnsuringOps == {"execute", "get_raw_connection"}

\* the transport calls of the last operation that send something on a connection
Dispatches == {i \in DOMAIN last.calls : last.calls[i].call \in {"execute", "commit"}}

\* the last operation found a handle reference whose transport reported closed
FoundStale == last.pre # None /\ ~last.preOpen

\* C1: a construction that returns has made no transport call; no connection
\* exists, the handle reference is None and is_connected() is false.
C1_ConstructionOpensNothing ==
    (last.op \in ConstructOps /\ last.exc = "none") =>
        /\ last.calls = <<>>
        /\ handles = <<>>
        /\ connects = 0
        /\ client._connection = None
        /\ ~is_connected(client, handles)

C1_Witness ==
    /\ last.op = "Client"
    /\ client.variant = "SeekdbServerClient"
    /\ client.port = 2882
    /\ ~is_connected(client, handles)

\* C2: when execute returns without raising, is_connected() is true.
C2_ExecuteLeavesConnected ==
    (last.op = "execute" /\ last.exc = "none") => is_connected(client, handles)

\* execute returned on a client that held a stale handle
C2_Witness ==
    /\ last.op = "execute"
    /\ last.exc = "none"
    /\ FoundStale
    /\ is_connected(client, handles)

\* C3: execute or get_raw_connection called on a stale handle opens a fresh
\* handle; nothing is sent on the stale one and no error of the stale session
\* is raised; when the backend is reachable and accepts the statement, the
\* operation returns, the fresh handle is the client's, and the statement went
\* out on it.
C3_StaleHandleRecovery ==
    (last.op \in EnsuringOps /\ FoundStale) =>
        /\ last.calls # <<>>
        /\ last.calls[1].call = "connect"
        /\ \A i \in Dispatches : last.calls[i].h # last.pre
        /\ last.exc # "InterfaceError"
        /\ last.env = AllOk =>
              /\ last.exc = "none"
              /\ client._connection = last.calls[1].h
              /\ client._connection # last.pre
              /\ handles[client._connection].open
              /\ \A i \in Dispatches : last.calls[i].h = client._connection
              /\ last.op = "execute" => Dispatches # {}

C3_Witness ==
    /\ last.op = "execute"
    /\ FoundStale
    /\ last.env = AllOk
    /\ last.exc = "none"
    /\ client._connection = 2
    /\ last.pre = 1

\* C4: execute or get_raw_connection called while the handle reports open
\* makes no connect and uses that handle; the connects made so far are as many
\* as the operations that found the handle absent or closed.
C4_HandleReuse ==
    /\ (last.op \in EnsuringOps /\ last.preOpen) =>
          /\ ConnectCalls(last.calls) = 0
          /\ client._connection = last.pre
          /\ \A i \in Dispatches : last.calls[i].h = last.pre
          /\ (last.op = "get_raw_connection" => last.ret = [kind |-> "conn", h |-> last.pre])
    /\ connects = needed

C4_Witness ==
    /\ last.op = "execute"
    /\ last.preOpen
    /\ last.exc = "none"
    /\ Dispatches # {}
    /\ connects = 2
    /\ needed = 2

\* C5: cleanup of a connected client closes the transport and clears the
\* reference, which leaves the client as its constructor left it; an execute on
\* a client without a handle opens a new handle, none of the closed ones, and
\* returns when the backend is reachable and accepts the statement.
C5_CleanupThenReconnect ==
    /\ (last.op = "cleanup" /\ last.preOpen) =>
          /\ last.exc = "none"
          /\ last.calls = <<[call |-> "close", h |-> last.pre]>>
          /\ ~handles[last.pre].open
          /\ client._connection = None
          /\ ~is_connected(client, handles)
          /\ client = fresh
    /\ (last.op = "execute" /\ last.pre = None /\ last.env = AllOk) =>
          /\ last.exc = "none"
          /\ client._connection = Len(handles)
          /\ last.calls[1] = [call |-> "connect", h |-> Len(handles),
                              user |-> handles[Len(handles)].user]
          /\ handles[client._connection].open
          /\ ~handles[client._connection].closed
          /\ \A h \in DOMAIN handles : handles[h].closed => h # client._connection

\* an execute that reconnected after a cleanup
C5_Witness ==
    /\ last.op = "execute"
    /\ last.pre = None
    /\ last.exc = "none"
    /\ Len(handles) = 2
    /\ handles[1].closed
    /\ client._connection = 2

\* a cleanup directly after a cleanup
CleanupAfterCleanup ==
    (last.op = "cleanup" /\ last'.op = "cleanup") =>
        /\ last'.calls = <<>>
        /\ last'.exc = "none"
        /\ client' = client
        /\ handles' = handles
        /\ ~is_connected(client', handles')

\* the state a cleanup leaves
CleanupAlways ==
    last.op = "cleanup" =>
        /\ last.exc = "none"
        /\ client._connection = None
        /\ ~is_connected(client, handles)
        /\ (handles = <<>> => last.calls = <<>>)

TransportReportsOpen ==
    client._connection # None /\ handles[client._connection].open

\* what is_connected() is in a state, and what a call of it returns
IsConnectedState ==
    client.variant \in ServerBacked =>
        /\ is_connected(client, handles) = TransportReportsOpen
        /\ last.op = "is_connected" =>
              /\ last.exc = "none"
              /\ last.ret = [kind |-> "bool", b |-> TransportReportsOpen]

\* what a call of is_connected() changes
IsConnectedStep ==
    last'.op = "is_connected" => (client' = client /\ handles' = handles)

\* C9: is_connected() is true exactly when a handle reference exists and its
\* transport reports open, in every state and in the value each call returns;
\* a call raises nothing and changes neither the client nor the transport.
C9_IsConnectedDerived == []IsConnectedState /\ [][IsConnectedStep]_vars

\* is_connected() answered false on a client that holds a handle reference
C9_Witness ==
    /\ last.op = "is_connected"
    /\ last.pre # None
    /\ last.ret = [kind |-> "bool", b |-> FALSE]

\* the identity the client is to present: user@tenant for the multi-tenant
\* variant, the bare user for the server variant
Identity ==
    IF client.variant = "OceanBaseServerClient"
    THEN client.user \o "@" \o client.tenant
    ELSE client.user

\* C10: every connection was opened with user@tenant (the tenant once) by the
\* multi-tenant variant and with the bare user by the server variant, the
\* first one and each one opened after a cleanup or in place of a stale handle.
C10_IdentityPresented ==
    client.variant \in ServerBacked =>
        /\ \A h \in DOMAIN handles : handles[h].user = Identity
        /\ \A i \in DOMAIN last.calls :
              last.calls[i].call = "connect" => last.calls[i].user = Identity
        /\ client.user = fresh.user
        /\ client.variant = "OceanBaseServerClient" =>
              /\ client.tenant = fresh.tenant
              /\ client.full_user = Identity

\* the second connection of a multi-tenant client, opened after a cleanup
C10_Witness ==
    /\ client.variant = "OceanBaseServerClient"
    /\ client.user = "u1"
    /\ client.tenant = "t1"
    /\ Len(handles) = 2
    /\ handles[1].user = "u1@t1"
    /\ handles[2].user = "u1@t1"
    /\ handles[1].closed
    /\ client._connection = 2

-----------------------------------------------------------------------------
(* Properties of execute *)

CasePairs ==
    { <<"s", "S">>, <<"e", "E">>, <<"l", "L">>, <<"c", "C">>, <<"t", "T">>,
      <<"h", "H">>, <<"o", "O">>, <<"w", "W">> }

\* after n leading whitespace characters the text goes on with the keyword, in any case
KeywordAt(sql, n, kw) ==
    /\ Len(sql) >= n + Len(kw)
    /\ \A j \in 1..n : sql[j] \in Whitespace
    /\ \A j \in 1..Len(kw) : sql[n + j] = kw[j] \/ <<sql[n + j], kw[j]>> \in CasePairs

\* the statement begins with SELECT or SHOW, whitespace and case ignored
IsQueryText(sql) ==
    \E n \in 0..Len(sql) : KeywordAt(sql, n, SELECT) \/ KeywordAt(sql, n, SHOW)

\* C11: an execute that returns gives the rows the backend produced when the
\* statement begins with SELECT or SHOW (whitespace and case ignored), and the
\* cursor otherwise, whatever the variant and whatever the handle was before.
C11_StatementClassification ==
    (last.op = "execute" /\ last.exc = "none") =>
        IF IsQueryText(last.arg)
        THEN last.ret = [kind |-> "rows", rows |-> last.env.rows]
        ELSE last.ret = [kind |-> "cursor", h |-> client._connection]

\* "  select 1" answered with the backend's row on a handle that was open before
C11_Witness ==
    /\ last.op = "execute"
    /\ last.exc = "none"
    /\ last.arg = <<" ", " ", "s", "e", "l", "e", "c", "t", " ", "1">>
    /\ last.ret = [kind |-> "rows", rows |-> <<[test |-> 1]>>]
    /\ last.preOpen

\* the commits among the transport calls of the last operation
Commits == {i \in DOMAIN last.calls : last.calls[i].call = "commit"}

\* C12: an execute of a statement that is not SELECT/SHOW returns only after
\* one commit, issued on the handle of the statement right after it; an execute
\* of SELECT/SHOW issues no commit; a rejected statement is followed by no commit.
C12_CommitDiscipline ==
    last.op = "execute" =>
        /\ (last.exc = "none" /\ ~IsQueryText(last.arg)) =>
              /\ Cardinality(Commits) = 1
              /\ Len(last.calls) >= 2
              /\ last.calls[Len(last.calls)] = [call |-> "commit", h |-> client._connection]
              /\ last.calls[Len(last.calls) - 1] =
                    [call |-> "execute", h |-> client._connection, sql |-> last.arg]
        /\ IsQueryText(last.arg) => Commits = {}
        /\ last.exc = "QueryError" => Commits = {}

\* CREATE committed on the handle it was sent on, which was open before
C12_Witness ==
    /\ last.op = "execute"
    /\ last.exc = "none"
    /\ last.arg = <<"C", "R", "E", "A", "T", "E">>
    /\ last.preOpen
    /\ last.calls = <<[call |-> "execute", h |-> last.pre, sql |-> last.arg],
                      [call |-> "commit", h |-> last.pre]>>

-----------------------------------------------------------------------------
(* Properties of the factories *)

\* the last operation was a call of the factory op that returned a client
Produced(op) == last.op = op /\ last.exc = "none"

\* the construction made no transport call and left the client without a handle
OpenedNothing ==
    /\ last.calls = <<>>
    /\ handles = <<>>
    /\ client._connection = None
    /\ ~is_connected(client, handles)

\* C13: Client with a path returns the embedded variant with that path and
\* database; Client with a host and no path returns the server variant with the
\* caller's host, port, database, user and password, port 2882 and user "root"
\* when these are omitted; neither opens a connection.
C13_FactoryRouting ==
    last.op = "Client" =>
        /\ Given(last.arg.path) =>
              /\ last.exc = "none"
              /\ client.variant = "SeekdbEmbeddedClient"
              /\ client.path = last.arg.path[1]
              /\ client.database = OrDefault(last.arg.database, "test")
              /\ OpenedNothing
        /\ (~Given(last.arg.path) /\ Given(last.arg.host)) =>
              /\ last.exc = "none"
              /\ client.variant = "SeekdbServerClient"
              /\ mode(client) = "SeekdbServerClient"
              /\ client.host = last.arg.host[1]
              /\ client.port = (IF Given(last.arg.port) THEN last.arg.port[1] ELSE 2882)
              /\ client.user = (IF Given(last.arg.user) THEN last.arg.user[1] ELSE "root")
              /\ client.database = OrDefault(last.arg.database, "test")
              /\ client.password = last.arg.password[1]
              /\ OpenedNothing

\* Client(host="h") alone: the server variant on port 2882 as root
C13_Witness ==
    /\ Produced("Client")
    /\ last.arg.path = <<>> /\ last.arg.host = <<"h">>
    /\ last.arg.port = <<>> /\ last.arg.user = <<>>
    /\ client.variant = "SeekdbServerClient"
    /\ client.port = 2882 /\ client.user = "root"

\* C14: Client without path and without host raises ValueError whatever port,
\* database, user and password are; no client exists and nothing was opened.
C14_NoAddressingFails ==
    (last.op = "Client" /\ ~Given(last.arg.path) /\ ~Given(last.arg.host)) =>
        /\ last.exc = "ValueError"
        /\ client = NoClient
        /\ fresh = NoClient
        /\ last.calls = <<>>
        /\ handles = <<>>

\* Client(port=3306, database="db1", user="u1", password="pw") fails
C14_Witness ==
    /\ last.op = "Client"
    /\ last.exc = "ValueError"
    /\ last.arg.path = <<>> /\ last.arg.host = <<>>
    /\ last.arg.port = <<3306>> /\ last.arg.database = <<"db1">>
    /\ last.arg.user = <<"u1">>

\* C15: a client carries a path or a host, never both and never neither; when
\* Client gets both, the embedded variant is built from path and database and
\* has no host, port, user or password.
C15_AddressingExclusive ==
    /\ Constructed => (hasattr(client, "path") # hasattr(client, "host"))
    /\ (last.op = "Client" /\ Given(last.arg.path) /\ Given(last.arg.host)) =>
          /\ client.variant = "SeekdbEmbeddedClient"
          /\ client.path = last.arg.path[1]
          /\ client.database = OrDefault(last.arg.database, "test")
          /\ \A a \in {"host", "port", "user", "password"} : ~hasattr(client, a)

\* Client(path="/d", host="h", port=3306, user="u1", password="pw")
C15_Witness ==
    /\ Produced("Client")
    /\ last.arg.path = <<"/d">> /\ last.arg.host = <<"h">>
    /\ last.arg.port = <<3306>> /\ last.arg.user = <<"u1">>
    /\ client.variant = "SeekdbEmbeddedClient"

\* C16: OBClient returns the OceanBaseServerClient variant for every choice of
\* supplied and omitted parameters, each parameter being the caller's value or
\* its default (localhost, 2881, test, test, root), and opens no connection.
C16_OBClientConstruction ==
    last.op = "OBClient" =>
        /\ last.exc = "none"
        /\ client.variant = "OceanBaseServerClient"
        /\ mode(client) = "OceanBaseServerClient"
        /\ client.host = OrDefault(last.arg.host, "localhost")
        /\ client.port = OrDefault(last.arg.port, 2881)
        /\ client.tenant = OrDefault(last.arg.tenant, "test")
        /\ client.database = OrDefault(last.arg.database, "test")
        /\ client.user = OrDefault(last.arg.user, "root")
        /\ client.password = last.arg.password[1]
        /\ OpenedNothing

\* OBClient(tenant="t1") with everything else but the password omitted
C16_Witness ==
    /\ Produced("OBClient")
    /\ last.arg.host = <<>> /\ last.arg.port = <<>> /\ last.arg.tenant = <<"t1">>
    /\ last.arg.database = <<>> /\ last.arg.user = <<>>
    /\ client.host = "localhost" /\ client.port = 2881 /\ client.tenant = "t1"
    /\ client.database = "test" /\ client.user = "root"

-----------------------------------------------------------------------------
(* Properties of error propagation *)

\* the last operation needed a connection and the backend could not be reached
ConnectFailed == last.op \in EnsuringOps /\ ~last.preOpen /\ ~last.env.ok

\* what the caller saw of it: the connection error after one connect attempt
\* that produced no handle, and nothing sent
ConnectFailedState ==
    ConnectFailed =>
        /\ last.exc = "ConnectionError"
        /\ Len(last.calls) = 1
        /\ last.calls[1].call = "connect"
        /\ last.calls[1].h = None
        /\ Dispatches = {}
        /\ client._connection = last.pre
        /\ ~is_connected(client, handles)

\* the step of it leaves the client, its handle reference included, and the
\* connections as they were
ConnectFailedStep ==
    ConnectFailed' => (client' = client /\ handles' = handles)

\* C17: execute and get_raw_connection on a client that has no open handle,
\* while the backend cannot be reached, raise the transport's connection error
\* after one connect attempt, send no statement, and leave the client's handle
\* reference and parameters as before the call.
C17_ConnectFailurePropagates == []ConnectFailedState /\ [][ConnectFailedStep]_vars

\* an execute fails to replace a stale handle
C17_Witness ==
    /\ last.op = "execute"
    /\ last.exc = "ConnectionError"
    /\ FoundStale
    /\ client._connection = last.pre


\* the last operation was an execute on an open handle whose statement the
\* backend rejected
Rejected == last.op = "execute" /\ last.preOpen /\ last.env.stmt = "rejected"

\* the caller gets the query error; the statement went out once, with no
\* connect and no commit around it; the handle is the same and still open
RejectedState ==
    Rejected =>
        /\ last.exc = "QueryError"
        /\ last.calls = <<[call |-> "execute", h |-> last.pre, sql |-> last.arg]>>
        /\ client._connection = last.pre
        /\ handles[last.pre].open
        /\ is_connected(client, handles)

\* an execute that comes next connects nothing and sends on the same handle
RejectedStep ==
    (Rejected /\ last'.op = "execute") =>
        /\ last'.pre = last.pre
        /\ last'.preOpen
        /\ ConnectCalls(last'.calls) = 0
        /\ last'.calls # <<>>
        /\ \A i \in DOMAIN last'.calls : last'.calls[i].h = last.pre

\* C18: a statement rejected on an open handle gives the caller the query
\* error after one dispatch, without reconnect; the client keeps the handle,
\* is_connected() is true, and the next execute sends on that handle.
C18_RejectedStatementKeepsHandle == []RejectedState /\ [][RejectedStep]_vars

\* a rejected CREATE on an open handle
C18_Witness ==
    /\ Rejected
    /\ last.exc = "QueryError"
    /\ last.arg = <<"C", "R", "E", "A", "T", "E">>
    /\ is_connected(client, handles)

-----------------------------------------------------------------------------
(* Properties of teardown *)

TeardownOps == {"exit", "del"}

\* C19: leaving a with-block and finalizing a client never hand the caller the
\* error that the transport's close raised.
C19_TeardownSuppresses ==
    last.op \in TeardownOps => last.exc # "AlreadyClosed"

\* the object the last finalizer ran on still held an open handle
DelConnected == hasattr(last.arg, "_connection") /\ last.preOpen

\* C20: __del__ raises nothing; on a client whose handle exists and is open it
\* closes that handle and clears the reference; on a client that never
\* connected, was cleaned up or holds a closed handle, and on an object without
\* the _connection attribute, it makes no transport call and changes nothing.
C20_FinalizerCleansIffConnected ==
    last.op = "del" =>
        /\ last.exc = "none"
        /\ DelConnected =>
              /\ last.calls = <<[call |-> "close", h |-> last.pre]>>
              /\ handles[last.pre].closed
              /\ ~handles[last.pre].open
              /\ client._connection = None
        /\ ~DelConnected =>
              /\ last.calls = <<>>
              /\ (Constructed => client = last.arg)
              /\ (~Constructed => handles = <<>>)

\* a connected client is collected and its handle closed
C20_Witness ==
    /\ last.op = "del"
    /\ DelConnected
    /\ last.calls # <<>>
    /\ scope = "gone"
    /\ ~is_connected(client, handles)

-----------------------------------------------------------------------------
(* Properties of the remaining client surface *)

\* the last operation was a get_raw_connection that returned
GotRaw == last.op = "get_raw_connection" /\ last.exc = "none"

\* it returned the handle the client holds, which is open: the one it held
\* before when that was open, a newly connected one otherwise
GotRawState ==
    GotRaw =>
        /\ last.ret = [kind |-> "conn", h |-> client._connection]
        /\ is_connected(client, handles)
        /\ Dispatches = {}
        /\ IF last.preOpen
           THEN last.calls = <<>> /\ client._connection = last.pre
           ELSE /\ ConnectCalls(last.calls) = 1
                /\ Len(last.calls) = 1
                /\ last.calls[1].h = client._connection
                /\ client._connection # last.pre

\* the client still owns it: an execute that follows sends on it without
\* connecting, a cleanup that follows closes it
GotRawStep ==
    /\ (GotRaw /\ last'.op = "execute") =>
          /\ last'.calls # <<>>
          /\ \A i \in DOMAIN last'.calls : last'.calls[i].h = last.ret.h
    /\ (GotRaw /\ last'.op = "cleanup") =>
          /\ last'.calls = <<[call |-> "close", h |-> last.ret.h]>>
          /\ ~handles'[last.ret.h].open

\* C21: get_raw_connection connects when the handle is absent or closed and
\* reuses it when open, returns the handle the client holds and keeps it:
\* is_connected() is true, the next execute sends on that handle and the next
\* cleanup closes it.
C21_RawConnectionStaysOwned == []GotRawState /\ [][GotRawStep]_vars

\* get_raw_connection replaced a stale handle by a new one
C21_Witness ==
    /\ GotRaw
    /\ FoundStale
    /\ last.ret.h # last.pre
    /\ is_connected(client, handles)


\* the mode tag of the class the client was constructed as
TagOf(c) ==
    IF c.variant = "OceanBaseServerClient" THEN "OceanBaseServerClient"
    ELSE "SeekdbServerClient"

\* in every state the tag is the one of the construction; a read of it returns
\* it without a transport call
ModeState ==
    client.variant \in ServerBacked =>
        /\ mode(client) = TagOf(fresh)
        /\ last.op = "mode" =>
              /\ last.exc = "none"
              /\ last.ret = [kind |-> "str", s |-> TagOf(fresh)]
              /\ last.calls = <<>>
              /\ client._connection = last.pre
              /\ is_connected(client, handles) = last.preOpen

\* no step changes the tag, and the step that reads it changes nothing
ModeStep ==
    /\ (client.variant \in ServerBacked) => mode(client') = mode(client)
    /\ last'.op = "mode" => (client' = client /\ handles' = handles)

\* C22: the mode tag is "SeekdbServerClient" or "OceanBaseServerClient"
\* according to the class constructed and is the same in every state the client
\* goes through; reading it makes no transport call and changes nothing.
C22_ModeFixed == []ModeState /\ [][ModeStep]_vars

\* the tag read after two connects and a cleanup
C22_Witness ==
    /\ last.op = "mode"
    /\ last.ret = [kind |-> "str", s |-> "OceanBaseServerClient"]
    /\ connects = 2
    /\ client._connection = None
    /\ \E h \in DOMAIN handles : handles[h].closed

-----------------------------------------------------------------------------
(* Properties of database management *)

DbOps == {"create_database", "get_database", "delete_database", "list_databases"}

\* the statements the last operation sent
Sent == {last.calls[i].sql : i \in {j \in DOMAIN last.calls : last.calls[j].call = "execute"}}

\* the statement of a database operation, as its name, limit and offset make it
DbStatement ==
    CASE last.op = "create_database" ->
            CREATE \o <<" DATABASE IF NOT EXISTS ", Backquote, last.arg.name, Backquote>>
      [] last.op = "delete_database" ->
            DROP \o <<" DATABASE IF EXISTS ", Backquote, last.arg.name, Backquote>>
      [] last.op = "get_database" ->
            SELECT \o Schemata \o <<WhereName, last.arg.name, "'">>
      [] last.op = "list_databases" ->
            SELECT \o Schemata \o
            (IF last.arg.limit = <<>> THEN <<>>
             ELSE IF last.arg.offset = <<>>
             THEN <<LimitClause, Str(last.arg.limit[1])>>
             ELSE <<LimitClause, Str(last.arg.offset[1]), ", ", Str(last.arg.limit[1])>>)

\* the positions of the catalog that hold the name asked for
Named == {i \in DOMAIN last.env.catalog : last.env.catalog[i].SCHEMA_NAME = last.arg.name}

\* the outcome the backend and the catalog alone decide
DbOutcome ==
    IF ~last.preOpen /\ ~last.env.ok THEN "ConnectionError"
    ELSE IF last.env.stmt = "rejected" THEN "QueryError"
    ELSE IF last.op = "get_database" /\ Named = {} THEN "ValueError"
    ELSE "none"

\* the descriptor names the client's tenant, or none for the server variant
OwnTenant(d) ==
    IF client.variant = "OceanBaseServerClient" THEN d.tenant = client.tenant
    ELSE d.tenant = None

\* C23: whatever tenant argument a database operation gets (none, the client's,
\* another), its outcome is the one backend and catalog decide, the statement
\* is the one its other arguments make, and every descriptor returned carries
\* the client's own tenant for the multi-tenant variant and none for the server
\* variant.
C23_TenantArgumentIgnored ==
    last.op \in DbOps =>
        /\ last.exc = DbOutcome
        /\ Sent \subseteq {DbStatement}
        /\ (last.op = "get_database" /\ last.exc = "none") => OwnTenant(last.ret.db)
        /\ (last.op = "list_databases" /\ last.exc = "none") =>
              \A i \in DOMAIN last.ret.dbs : OwnTenant(last.ret.dbs[i])

\* a client of tenant t1 asked for a database of tenant t2
C23_Witness ==
    /\ last.op = "get_database"
    /\ last.exc = "none"
    /\ client.variant = "OceanBaseServerClient"
    /\ client.tenant = "t1"
    /\ last.arg.tenant = <<"t2">>
    /\ last.ret.db.tenant = "t1"
    /\ Sent = {DbStatement}

\* the first row of the catalog with the name asked for
FirstNamed == last.env.catalog[CHOOSE i \in Named : \A j \in Named : i <= j]

\* C24: a get_database whose lookup was answered raises ValueError exactly when
\* no row has the name, and otherwise returns the name, charset and collation
\* of the first such row; either way the client stays connected on the handle
\* the lookup was sent on.
C24_GetDatabaseNotFound ==
    (last.op = "get_database" /\ last.exc \notin {"ConnectionError", "QueryError"}) =>
        /\ (last.exc = "ValueError") = (Named = {})
        /\ last.exc \in {"ValueError", "none"}
        /\ last.exc = "none" =>
              /\ last.ret.kind = "database"
              /\ last.ret.db.name = FirstNamed.SCHEMA_NAME
              /\ last.ret.db.charset = FirstNamed.DEFAULT_CHARACTER_SET_NAME
              /\ last.ret.db.collation = FirstNamed.DEFAULT_COLLATION_NAME
        /\ is_connected(client, handles)
        /\ \A i \in DOMAIN last.calls :
              last.calls[i].call = "execute" => last.calls[i].h = client._connection

\* a lookup that had to connect found nothing and left the connection open
C24_Witness ==
    /\ last.op = "get_database"
    /\ last.exc = "ValueError"
    /\ last.arg.name = "nodb"
    /\ last.env.catalog # <<>>
    /\ ~last.preOpen
    /\ ConnectCalls(last.calls) = 1
    /\ is_connected(client, handles)

\* C25: a list_databases that returns has skipped offset rows when offset is
\* supplied and returns at most limit rows when limit is supplied, in catalog
\* order; its statement has no paging clause only when neither is supplied.
C25_PagingClause ==
    (last.op = "list_databases" /\ last.exc = "none") =>
        LET catalog == last.env.catalog
            skip == IF last.arg.offset = <<>> THEN 0 ELSE last.arg.offset[1]
            rest == IF skip < Len(catalog) THEN Len(catalog) - skip ELSE 0
            count == IF last.arg.limit # <<>> /\ last.arg.limit[1] < rest
                     THEN last.arg.limit[1] ELSE rest
        IN  /\ Len(last.ret.dbs) = count
            /\ \A i \in 1..count : last.ret.dbs[i].name = catalog[skip + i].SCHEMA_NAME
            /\ (\A sql \in Sent : LimitClause \notin {sql[i] : i \in DOMAIN sql})
                  = (last.arg.limit = <<>> /\ last.arg.offset = <<>>)

-----------------------------------------------------------------------------
(* Properties of the surface the tests and examples use *)

FactoryOps == {"Client", "OBClient"}

\* C26: the object a factory returns has the attribute _server, and asking for
\* it raises nothing.
C26_ProxyExposesServer ==
    /\ (last.op \in FactoryOps /\ last.exc = "none") => hasattr(client, "_server")
    /\ (last.op = "getattr" /\ last.arg = "_server" /\ fresh = client) =>
          last.exc = "none"

\* C27: every server-backed client has a close() which, called after an
\* execute, raises nothing and leaves is_connected() false.
C27_PublicClose ==
    last.op = "close" =>
        /\ hasattr(client, "close")
        /\ last.exc = "none"
        /\ ~is_connected(client, handles)

\* C28: every class is a BaseClient that defines each abstract operation of
\* BaseClient itself, so no constructor call fails as abstract and asking a
\* client of any variant for a shared operation finds it.
C28_CapabilitySet ==
    /\ last.op \in ConstructOps => last.exc # "TypeError"
    /\ Constructed =>
          /\ "BaseClient" \in Bases(client.variant)
          /\ AbstractMethods \subseteq Defines(client.variant)
          /\ \A m \in AbstractMethods : hasattr(client, m)
    /\ (last.op = "getattr" /\ last.arg \in AbstractMethods) =>
          (last.exc = "none" /\ last.ret.found)

\* a connected multi-tenant client asked for has_collection
C28_Witness ==
    /\ last.op = "getattr"
    /\ last.arg = "has_collection"
    /\ last.exc = "none"
    /\ client.variant = "OceanBaseServerClient"
    /\ is_connected(client, handles)


-----------------------------------------------------------------------------
(* Properties of a client shared by threads *)

\* connection h is open and the client's handle reference does not name it
Leaked(h) == handles[h].open /\ client._connection # h

\* in this step no connection that was open and unreferenced gets closed
LeakStays ==
    \A h \in DOMAIN handles : Leaked(h) => (h \in DOMAIN handles' /\ handles'[h].open)

\* C29: with the caller serializing the calls, every open connection is the one
\* the handle reference names, so no connection leaks; and in every step,
\* serialized or not, a connection that is open and not named by the handle
\* reference stays open: _cleanup never closes it.  (Without serialization two
\* calls that both saw the handle absent both connect and leave such a
\* connection: C29_Witness.)
C29_ConcurrentConnectLeaks ==
    /\ [](threads.serialized => \A h \in DOMAIN handles : ~Leaked(h))
    /\ [][LeakStays]_vars

\* unserialized, two calls connected although no connection was ever closed:
\* the first connection is open and unreferenced, and a completed _cleanup has
\* closed the second one only
C29_Witness ==
    /\ ~threads.serialized
    /\ last.op = "cleanup_clear"
    /\ Len(handles) = 2
    /\ Leaked(1) /\ ~handles[1].closed
    /\ handles[2].closed
    /\ client._connection = None

SendSteps == {"dispatch", "commit"}

\* C30: with the caller serializing the calls, execute never sends a statement
\* or a commit on a connection that _cleanup has closed.  (Without
\* serialization a _cleanup between execute's obtaining the connection and its
\* dispatch makes it do so: C30_Witness.)
C30_CleanupUnderExecute ==
    (threads.serialized /\ last.op \in SendSteps) => ~last.closed

\* unserialized, the _cleanup of one thread closed the connection between
\* another thread's `conn = self._ensure_connection()` and its cursor.execute
C30_Witness ==
    /\ ~threads.serialized
    /\ last.op = "dispatch"
    /\ last.closed
    /\ last.exc = "InterfaceError"
    /\ \E t \in Threads : t # last.thread /\ threads.at[t].pc = "cleanup_clear"


-----------------------------------------------------------------------------
(* Properties of the single logical connection *)

\* every connection that reports open is the one the handle reference names
OnlyReferencedOpen ==
    \A h \in DOMAIN handles : handles[h].open => client._connection = h

\* the close calls an operation made
ClosedBy(calls) == { calls[i].h : i \in { j \in DOMAIN calls : calls[j].call = "close" } }

\* in this step the handle reference, if it goes from one connection to another,
\* leaves a connection that reported closed, and close is not called on it
ReplacesOnlyStale ==
    (client._connection # None /\ client'._connection \notin {None, client._connection}) =>
        /\ ~handles[client._connection].open
        /\ client._connection \notin ClosedBy(last'.calls)
        /\ handles'[client._connection] = handles[client._connection]

\* C31: under sequential use every connection that reports open is the one the
\* handle reference names, so at most one is open; the handle reference goes
\* from one connection to another only when the old one reported closed, and
\* the old one is dropped without close being called on it
C31_SingleConnection ==
    /\ [](OnlyReferencedOpen /\ Cardinality({h \in DOMAIN handles : handles[h].open}) <= 1)
    /\ [][ReplacesOnlyStale]_vars

\* a database operation found the session dropped and replaced the connection
C31_Witness ==
    /\ last.op \in {"create_database", "get_database", "delete_database", "list_databases"}
    /\ last.pre = 1
    /\ client._connection = 2
    /\ handles[2].open
    /\ ~handles[1].open /\ ~handles[1].closed


-----------------------------------------------------------------------------
(* Properties of cleanup when the transport's close fails *)

CleanupOps == {"cleanup", "exit"}

\* C32: _cleanup, called directly or by __exit__, calls close on the connection
\* whenever the handle reference exists, also when that connection already
\* reports closed; when close returns the reference is cleared (and __exit__
\* lets the error of the with-block body go on, if there is one), and when close
\* raises the error leaves _cleanup (and __exit__) and the reference stays
C32_CleanupCloseRaises ==
    (last.op \in CleanupOps /\ last.pre # None) =>
        /\ last.calls = <<[call |-> "close", h |-> last.pre]>>
        /\ last.exc \in {"none", "AlreadyClosed", last.body}
        /\ last.exc # "AlreadyClosed" =>
              /\ client._connection = None
              /\ handles[last.pre].closed /\ ~handles[last.pre].open
        /\ last.exc = "AlreadyClosed" => client._connection = last.pre

\* leaving a with-block after the caller closed the raw connection: close is
\* called on the connection that reports closed, raises, and the reference stays
C32_Witness ==
    /\ last.op = "exit"
    /\ ~last.preOpen
    /\ last.exc = "AlreadyClosed"
    /\ client._connection = last.pre
    /\ client._connection # None


-----------------------------------------------------------------------------
(* Properties of collection management and of Collection objects *)

CollectionOps ==
    {"create_collection", "get_collection", "delete_collection", "list_collections",
     "has_collection"}

\* what a collection-management call of the last step did and returned
CollectionOutcome ==
    last.op \in CollectionOps =>
        /\ last.exc = "none"
        /\ last.calls = <<>>
        /\ client._connection = last.pre
        /\ HandleOpen = last.preOpen
        /\ last.op \in {"create_collection", "get_collection"} =>
              /\ Collection_client(last.ret.coll) = Self(client)
              /\ Collection_name(last.ret.coll) = last.arg.name
              /\ collections[Len(collections)] = last.ret.coll
        /\ last.op = "has_collection" => last.ret.b = FALSE
        /\ last.op = "list_collections" => last.ret.items = <<>>

\* a collection-management step leaves the client and every connection as they were
CollectionFrame ==
    last'.op \in CollectionOps =>
        (client' = client /\ handles' = handles /\ connects' = connects)

\* C33: create_collection, get_collection, delete_collection, list_collections
\* and has_collection of the server classes make no transport call and leave the
\* handle reference and every connection unchanged; create_collection and
\* get_collection return a Collection whose client is the client called and
\* whose name is the name given; has_collection returns False and
\* list_collections returns [] whatever was created before
C33_CollectionManagementFrame == []CollectionOutcome /\ [][CollectionFrame]_vars

\* has_collection on a connected client, for the name of a collection that
\* create_collection returned earlier
C33_Witness ==
    /\ last.op = "has_collection"
    /\ last.ret.b = FALSE
    /\ HandleOpen
    /\ \E i \in DOMAIN collections :
          /\ Collection_name(collections[i]) = last.arg.name
          /\ Collection_dimension(collections[i]) = 3

\* no step changes a Collection object the caller holds
CollectionsFixed ==
    \A i \in DOMAIN collections : i \in DOMAIN collections' /\ collections'[i] = collections[i]

\* an operation on a Collection leaves the client and every connection as they were
HandleFrame ==
    last'.op \in HandleOps =>
        (client' = client /\ handles' = handles /\ connects' = connects)

\* C34: the name, dimension and client of a Collection never change after its
\* creation, whatever is called on it or on the client; add, update, delete,
\* search, get_by_id, query, hybrid_search, describe and count return without
\* error, also after the client was cleaned up, and leave the client's handle
\* reference and every connection unchanged
C34_CollectionFixed ==
    /\ [](last.op \in HandleOps => last.exc = "none")
    /\ [][CollectionsFixed /\ HandleFrame]_vars

\* describe on a Collection created with a dimension, after its client was
\* connected and cleaned up: it still reports the name and dimension given
C34_Witness ==
    /\ last.op = "describe"
    /\ last.exc = "none"
    /\ client._connection = None
    /\ \E h \in DOMAIN handles : handles[h].closed
    /\ Collection_dimension(collections[last.arg]) = 3
    /\ <<"dimension", [v |-> 3]>> \in last.ret.items
    /\ <<"name", [v |-> Collection_name(collections[last.arg])]>> \in last.ret.items


-----------------------------------------------------------------------------
(* Properties of how the database operations use the connection *)

\* the transport calls of the last operation after its connect, if it made one
AfterConnect ==
    IF last.calls # <<>> /\ last.calls[1].call = "connect" THEN Tail(last.calls)
    ELSE last.calls

\* the one statement of the last database operation, on the client's connection
Sends == [call |-> "execute", h |-> client._connection, sql |-> DbStatement]

\* C35: a database operation connects exactly when the client has no open
\* connection, and once the backend is reachable the client is connected
\* afterwards; it then sends exactly one statement, the one of its template on
\* the given name; create_database and delete_database commit it before they
\* return, get_database and list_databases read the catalog and never commit
C35_DatabaseOpsThroughExecute ==
    last.op \in DbOps =>
        /\ ConnectCalls(last.calls) = (IF last.preOpen THEN 0 ELSE 1)
        /\ ~last.preOpen => last.calls[1].call = "connect"
        /\ (~last.preOpen /\ ~last.env.ok) =>
              (last.exc = "ConnectionError" /\ AfterConnect = <<>>)
        /\ (last.preOpen \/ last.env.ok) =>
              /\ is_connected(client, handles)
              /\ client._connection = (IF last.preOpen THEN last.pre ELSE Len(handles))
              /\ AfterConnect # <<>>
              /\ AfterConnect[1] = Sends
              /\ IF last.op \in {"create_database", "delete_database"}
                 THEN IF last.env.stmt = "ok"
                      THEN /\ last.exc = "none"
                           /\ AfterConnect =
                                 <<Sends, [call |-> "commit", h |-> client._connection]>>
                      ELSE last.exc # "none" /\ AfterConnect = <<Sends>>
                 ELSE /\ AfterConnect = <<Sends>>
                      /\ StartsWith(DbStatement, SELECT \o Schemata)

\* delete_database on a client that never connected: it connects, sends the
\* DROP statement and commits it
C35_Witness ==
    /\ last.op = "delete_database"
    /\ last.pre = None
    /\ last.exc = "none"
    /\ Len(last.calls) = 3
    /\ last.calls[3].call = "commit"
    /\ is_connected(client, handles)

====
